---------------------------- MODULE Spec2Model ----------------------------
(***************************************************************************)
(* The full-text search index of geopub (package search): tokenizer,       *)
(* stopword filter, stemmer, the per-field trie (InvertedIndex), the       *)
(* DocumentStore and the Index that drives documents through them.         *)
(*                                                                         *)
(* A Go string is a sequence of runes; a rune is a one-character string.   *)
(* Go's len() counts bytes of the UTF-8 encoding, so every rune carries    *)
(* its encoded width (RuneLen) and len is the sum of the widths.           *)
(* Field names and JSON keys are plain strings.                            *)
(***************************************************************************)
EXTENDS Integers, Sequences, FiniteSets, TLC

VARIABLES idx, last, posted, nops, arg, ret, pc

vars == <<idx, last, posted, nops, arg, ret, pc>>

---------------------------------------------------------------------------
(* Bounds of the model.                                                    *)

\* calls made on one Index
MaxOps == 2
\* documents with long words added to one Index
MaxLongOps == 1
\* segments concatenated into one tokenizer input
MaxSegs == 4
\* suffixes appended to a base to make one stemmer input
MaxSuffixes == 2
\* keys of one JSON object handed to UnmarshalJSON
MaxJSONKeys == 3
\* runes of one JSON text that is escaped for searchindex.js
MaxJSONLen == 4
\* digits after the point kept of a term frequency
WeightDigits == 2

---------------------------------------------------------------------------
(* Strings.                                                                *)

ElasticlunrVersion == "0.9.5"

maxWordLengthToIndex == 80

\* runes of the model alphabet whose UTF-8 encoding takes two bytes
TwoByteRunes == {"é", "É"}

RuneLen(r) == IF r \in TwoByteRunes THEN 2 ELSE 1

\* Go's len(s): the number of bytes of s
len(s) == Len(s) + Cardinality({i \in 1..Len(s) : RuneLen(s[i]) = 2})

Rep(r, n) == [i \in 1..n |-> r]

UpperRunes == <<"A", "B", "C", "D", "E", "F", "G", "H", "I", "J", "K", "L", "M",
                "N", "O", "P", "Q", "R", "S", "T", "U", "V", "W", "X", "Y", "Z", "É">>

LowerRunes == <<"a", "b", "c", "d", "e", "f", "g", "h", "i", "j", "k", "l", "m",
                "n", "o", "p", "q", "r", "s", "t", "u", "v", "w", "x", "y", "z", "é">>

\* unicode.ToLower on the model alphabet
lowerOf == [i \in 1..Len(UpperRunes) |-> LowerRunes[i]]

upperIndex == [r \in {UpperRunes[i] : i \in 1..Len(UpperRunes)} |->
                 CHOOSE i \in 1..Len(UpperRunes) : UpperRunes[i] = r]

IsUpper(r) == r \in DOMAIN upperIndex

ToLowerRune(r) == IF IsUpper(r) THEN lowerOf[upperIndex[r]] ELSE r

\* strings.ToLower
ToLower(s) == [i \in 1..Len(s) |-> ToLowerRune(s[i])]

\* unicode.IsSpace on the model alphabet
IsSpace(r) == r \in {" ", "\t", "\n", "\r"}

RECURSIVE TrimLeft(_)
TrimLeft(s) == IF s # <<>> /\ IsSpace(Head(s)) THEN TrimLeft(Tail(s)) ELSE s

RECURSIVE TrimRight(_)
TrimRight(s) ==
  IF s # <<>> /\ IsSpace(s[Len(s)]) THEN TrimRight(SubSeq(s, 1, Len(s) - 1)) ELSE s

\* strings.TrimSpace
TrimSpace(s) == TrimRight(TrimLeft(s))

\* strings.HasSuffix
HasSuffix(s, suffix) ==
  /\ Len(s) >= Len(suffix)
  /\ SubSeq(s, Len(s) - Len(suffix) + 1, Len(s)) = suffix

\* word[:len(word)-len(suffix)] for a suffix of one-byte runes
CutSuffix(word, suffix) == SubSeq(word, 1, Len(word) - Len(suffix))

---------------------------------------------------------------------------
(* Tokenizer.                                                              *)

isSeparatorSpaceOnly(r) == IsSpace(r)

\* the condition of the split: unicode.IsSpace(r) || r == '-'
isSeparator(r) == IsSpace(r) \/ r = "-"

flushBelowLimit(tokens, word) ==
  LET token == ToLower(TrimSpace(word))
  IN  IF token # <<>> /\ len(token) < maxWordLengthToIndex
      THEN Append(tokens, token)
      ELSE tokens

\* the token a finished word contributes: lowercased, kept if non-empty and
\* at most maxWordLengthToIndex bytes long
flush(tokens, word) ==
  LET token == ToLower(TrimSpace(word))
  IN  IF token # <<>> /\ len(token) <= maxWordLengthToIndex
      THEN Append(tokens, token)
      ELSE tokens

\* the index of the first separator of text at or after i, Len(text) + 1 if
\* there is none: where the loop stops writing runes to the word builder
nextSeparator(text, i) ==
  LET found == {j \in i..Len(text) : isSeparator(text[j])}
  IN  IF found = {}
      THEN Len(text) + 1
      ELSE CHOOSE j \in found : \A k \in found : j <= k

\* the loop over the runes of text, taken one word at a time: the runes from
\* i up to the next separator (or the end of the text) are written to the
\* word builder, and a non-empty builder is flushed there
RECURSIVE tokenizeFrom(_, _, _)
tokenizeFrom(text, i, tokens) ==
  IF i > Len(text)
  THEN tokens
  ELSE LET j == nextSeparator(text, i)
           word == SubSeq(text, i, j - 1)
       IN  tokenizeFrom(text, j + 1,
                        IF len(word) > 0 THEN flush(tokens, word) ELSE tokens)

tokenize(text) == tokenizeFrom(text, 1, <<>>)

---------------------------------------------------------------------------
(* Stopwords.                                                              *)

stopWords ==
  {
    <<>>, <<"a">>, <<"a", "b", "l", "e">>, <<"a", "b", "o", "u", "t">>,
    <<"a", "c", "r", "o", "s", "s">>, <<"a", "f", "t", "e", "r">>, <<"a", "l", "l">>,
    <<"a", "l", "m", "o", "s", "t">>, <<"a", "l", "s", "o">>, <<"a", "m">>,
    <<"a", "m", "o", "n", "g">>, <<"a", "n">>, <<"a", "n", "d">>, <<"a", "n", "y">>,
    <<"a", "r", "e">>, <<"a", "s">>, <<"a", "t">>, <<"b", "e">>,
    <<"b", "e", "c", "a", "u", "s", "e">>, <<"b", "e", "e", "n">>, <<"b", "u", "t">>,
    <<"b", "y">>, <<"c", "a", "n">>, <<"c", "a", "n", "n", "o", "t">>,
    <<"c", "o", "u", "l", "d">>, <<"d", "e", "a", "r">>, <<"d", "i", "d">>, <<"d", "o">>,
    <<"d", "o", "e", "s">>, <<"e", "i", "t", "h", "e", "r">>, <<"e", "l", "s", "e">>,
    <<"e", "v", "e", "r">>, <<"e", "v", "e", "r", "y">>, <<"f", "o", "r">>,
    <<"f", "r", "o", "m">>, <<"g", "e", "t">>, <<"g", "o", "t">>, <<"h", "a", "d">>,
    <<"h", "a", "s">>, <<"h", "a", "v", "e">>, <<"h", "e">>, <<"h", "e", "r">>,
    <<"h", "e", "r", "s">>, <<"h", "i", "m">>, <<"h", "i", "s">>, <<"h", "o", "w">>,
    <<"h", "o", "w", "e", "v", "e", "r">>, <<"i">>, <<"i", "f">>, <<"i", "n">>,
    <<"i", "n", "t", "o">>, <<"i", "s">>, <<"i", "t">>, <<"i", "t", "s">>,
    <<"j", "u", "s", "t">>, <<"l", "e", "a", "s", "t">>, <<"l", "e", "t">>,
    <<"l", "i", "k", "e">>, <<"l", "i", "k", "e", "l", "y">>, <<"m", "a", "y">>,
    <<"m", "e">>, <<"m", "i", "g", "h", "t">>, <<"m", "o", "s", "t">>,
    <<"m", "u", "s", "t">>, <<"m", "y">>, <<"n", "e", "i", "t", "h", "e", "r">>,
    <<"n", "o">>, <<"n", "o", "r">>, <<"n", "o", "t">>, <<"o", "f">>, <<"o", "f", "f">>,
    <<"o", "f", "t", "e", "n">>, <<"o", "n">>, <<"o", "n", "l", "y">>, <<"o", "r">>,
    <<"o", "t", "h", "e", "r">>, <<"o", "u", "r">>, <<"o", "w", "n">>,
    <<"r", "a", "t", "h", "e", "r">>, <<"s", "a", "i", "d">>, <<"s", "a", "y">>,
    <<"s", "a", "y", "s">>, <<"s", "h", "e">>, <<"s", "h", "o", "u", "l", "d">>,
    <<"s", "i", "n", "c", "e">>, <<"s", "o">>, <<"s", "o", "m", "e">>,
    <<"t", "h", "a", "n">>, <<"t", "h", "a", "t">>, <<"t", "h", "e">>,
    <<"t", "h", "e", "i", "r">>, <<"t", "h", "e", "m">>, <<"t", "h", "e", "n">>,
    <<"t", "h", "e", "r", "e">>, <<"t", "h", "e", "s", "e">>, <<"t", "h", "e", "y">>,
    <<"t", "h", "i", "s">>, <<"t", "i", "s">>, <<"t", "o">>, <<"t", "o", "o">>,
    <<"t", "w", "a", "s">>, <<"u", "s">>, <<"w", "a", "n", "t", "s">>, <<"w", "a", "s">>,
    <<"w", "e">>, <<"w", "e", "r", "e">>, <<"w", "h", "a", "t">>, <<"w", "h", "e", "n">>,
    <<"w", "h", "e", "r", "e">>, <<"w", "h", "i", "c", "h">>,
    <<"w", "h", "i", "l", "e">>, <<"w", "h", "o">>, <<"w", "h", "o", "m">>,
    <<"w", "h", "y">>, <<"w", "i", "l", "l">>, <<"w", "i", "t", "h">>,
    <<"w", "o", "u", "l", "d">>, <<"y", "e", "t">>, <<"y", "o", "u">>,
    <<"y", "o", "u", "r">>
  }

---------------------------------------------------------------------------
(* Stemmer.                                                                *)

step1Suffixes ==
  << [suffix |-> <<"i", "e", "s">>, minLen |-> 3],
     [suffix |-> <<"e", "s">>, minLen |-> 2],
     [suffix |-> <<"s">>, minLen |-> 1] >>

step3Suffixes ==
  << <<"t", "i", "o", "n">>, <<"s", "i", "o", "n">>, <<"m", "e", "n", "t">>,
     <<"n", "e", "s", "s">>, <<"f", "u", "l">>, <<"l", "e", "s", "s">>,
     <<"i", "t", "y">>, <<"o", "u", "s">>, <<"i", "v", "e">>, <<"e", "n", "t">>,
     <<"a", "n", "t">>, <<"a", "b", "l", "e">>, <<"i", "b", "l", "e">>,
     <<"e", "n", "c", "e">>, <<"a", "n", "c", "e">> >>

step4Suffixes == << <<"l", "y">>, <<"e", "r">>, <<"e", "s", "t">> >>

\* the loop over step1Suffixes, from entry i on: the first suffix that
\* applies is cut and the loop left
RECURSIVE step1From(_, _)
step1From(word, i) ==
  IF i > Len(step1Suffixes)
  THEN word
  ELSE LET s == step1Suffixes[i]
       IN  IF HasSuffix(word, s.suffix) /\ len(word) > len(s.suffix) + s.minLen
           THEN CutSuffix(word, s.suffix)
           ELSE step1From(word, i + 1)

stepEdIngSameGuard(word) ==
  IF HasSuffix(word, <<"e", "d">>) /\ len(word) > 5
  THEN CutSuffix(word, <<"e", "d">>)
  ELSE IF HasSuffix(word, <<"i", "n", "g">>) /\ len(word) > 5
       THEN CutSuffix(word, <<"i", "n", "g">>)
       ELSE word

\* Remove -ed and -ing
stepEdIng(word) ==
  IF HasSuffix(word, <<"e", "d">>) /\ len(word) > 4
  THEN CutSuffix(word, <<"e", "d">>)
  ELSE IF HasSuffix(word, <<"i", "n", "g">>) /\ len(word) > 5
       THEN CutSuffix(word, <<"i", "n", "g">>)
       ELSE word

\* the loops over step3Suffixes and step4Suffixes, from entry i on
RECURSIVE stripFrom(_, _, _)
stripFrom(word, suffixes, i) ==
  IF i > Len(suffixes)
  THEN word
  ELSE IF HasSuffix(word, suffixes[i]) /\ len(word) > len(suffixes[i]) + 2
       THEN CutSuffix(word, suffixes[i])
       ELSE stripFrom(word, suffixes, i + 1)

stem(word) ==
  IF len(word) <= 2
  THEN word
  ELSE LET w0 == ToLower(word)
           w1 == step1From(w0, 1)
           w2 == stepEdIng(w1)
           w3 == stripFrom(w2, step3Suffixes, 1)
       IN  stripFrom(w3, step4Suffixes, 1)

---------------------------------------------------------------------------
(* Values of a document (interface{}) and their string form.               *)

Digits == <<"0", "1", "2", "3", "4", "5", "6", "7", "8", "9">>

\* strconv of a non-negative int, as fmt prints it under %v
RECURSIVE Itoa(_)
Itoa(n) == IF n < 10 THEN <<Digits[n + 1]>> ELSE Append(Itoa(n \div 10), Digits[(n % 10) + 1])

NilValue == [t |-> "nil", s |-> <<>>, n |-> 0]
StringValue(s) == [t |-> "string", s |-> s, n |-> 0]
IntValue(n) == [t |-> "int", s |-> <<>>, n |-> n]

\* doc[key] of a Go map: the value under key, nil if there is none
MapGet(doc, key) == IF key \in DOMAIN doc THEN doc[key] ELSE NilValue

\* fmt.Sprintf("%v", v)
Sprintf(v) ==
  CASE v.t = "string" -> v.s
    [] v.t = "int" -> Itoa(v.n)
    [] OTHER -> <<"<", "n", "i", "l", ">">>

---------------------------------------------------------------------------
(* The trie of one field.  A node (IndexItem) is named by the sequence of  *)
(* edge labels that leads to it from the root: an InvertedIndex is the     *)
(* function from the paths of its nodes to their Docs and DF, and the      *)
(* Children of the node at p are the nodes at the paths Append(p, r).  A   *)
(* pointer to a node is <<p>>, the nil pointer is <<>>.                    *)

\* &IndexItem{Docs: make(...), Children: make(...)}
NewIndexItem == [Docs |-> <<>>, DF |-> 0]

NewInvertedIndex == (<<>> :> NewIndexItem)

\* the edge labels of the Children of the node at p
Children(ii, p) == {q[Len(q)] : q \in {x \in DOMAIN ii : Len(x) = Len(p) + 1 /\ SubSeq(x, 1, Len(p)) = p}}

\* the paths the walk over the runes of token goes through
Prefixes(token) == {SubSeq(token, 1, k) : k \in 1..Len(token)}

PostedReplacing(current, docRef, termFreq) ==
  [Docs |-> (docRef :> [TF |-> termFreq]),
   DF |-> IF docRef \in DOMAIN current.Docs THEN current.DF ELSE current.DF + 1]

PostedFirstWins(current, docRef, termFreq) ==
  [Docs |-> current.Docs @@ (docRef :> [TF |-> termFreq]),
   DF |-> IF docRef \in DOMAIN current.Docs THEN current.DF ELSE current.DF + 1]

PostedAlwaysCounts(current, docRef, termFreq) ==
  [Docs |-> (docRef :> [TF |-> termFreq]) @@ current.Docs,
   DF |-> current.DF + 1]

\* the terminal node after the posting of docRef with termFreq
Posted(current, docRef, termFreq) ==
  [Docs |-> (docRef :> [TF |-> termFreq]) @@ current.Docs,
   DF |-> IF docRef \in DOMAIN current.Docs THEN current.DF ELSE current.DF + 1]

AddTokenNoWalk(ii, docRef, token, termFreq) ==
  IF len(token) = 0 \/ token \notin DOMAIN ii
  THEN ii
  ELSE [ii EXCEPT ![token] = Posted(ii[token], docRef, termFreq)]

AddToken(ii, docRef, token, termFreq) ==
  IF len(token) = 0
  THEN ii
  ELSE LET walked == [p \in DOMAIN ii \cup Prefixes(token) |->
                        IF p \in DOMAIN ii THEN ii[p] ELSE NewIndexItem]
       IN  [walked EXCEPT ![token] = Posted(walked[token], docRef, termFreq)]

GetNode(ii, token) == IF token \in DOMAIN ii THEN <<token>> ELSE <<>>

HasToken(ii, token) == GetNode(ii, token) # <<>>

GetDocs(ii, token) ==
  LET node == GetNode(ii, token)
  IN  IF node = <<>>
      THEN <<>>
      ELSE [docID \in DOMAIN ii[node[1]].Docs |-> ii[node[1]].Docs[docID].TF]

GetDocFrequency(ii, token) ==
  LET node == GetNode(ii, token)
  IN  IF node = <<>> THEN 0 ELSE ii[node[1]].DF

---------------------------------------------------------------------------
(* JSON.  A JSON text is held as the value encoding/json decodes it to: a  *)
(* number, or an object from keys to values.                               *)

JNumber(n) == [t |-> "number", num |-> n, obj |-> <<>>]

JObject(o) == [t |-> "object", num |-> 0, obj |-> o]

\* the JSON null, and a JSON string (its text plays no part)
JNull == [t |-> "null", num |-> 0, obj |-> <<>>]

JString == [t |-> "string", num |-> 0, obj |-> <<>>]

hasDocsNever(item) == FALSE

\* len(ii.Docs) > 0
hasDocs(item) == Cardinality(DOMAIN item.Docs) > 0

hasDFAlways(item) == TRUE

\* ii.DF > 0
hasDF(item) == item.DF > 0

\* IndexItem.MarshalJSON of the node at p: docs and df are set when
\* present, then every child under its own key at the same level
RECURSIVE MarshalJSON(_, _)
MarshalJSON(ii, p) ==
  LET item == ii[p]
      docs == IF hasDocs(item)
              THEN "docs" :> JObject([docID \in DOMAIN item.Docs |->
                                        JObject("tf" :> JNumber(item.Docs[docID].TF))])
              ELSE <<>>
      df == IF hasDF(item) THEN "df" :> JNumber(item.DF) ELSE <<>>
      children == [key \in Children(ii, p) |-> MarshalJSON(ii, Append(p, key))]
  IN  JObject(children @@ df @@ docs)

\* the docs a "docs" value decodes to: the entries that are objects with a
\* numeric tf
parseDocs(val) ==
  IF val.t = "object"
  THEN [docID \in {d \in DOMAIN val.obj :
                     /\ val.obj[d].t = "object"
                     /\ "tf" \in DOMAIN val.obj[d].obj
                     /\ val.obj[d].obj["tf"].t = "number"} |->
          [TF |-> val.obj[docID].obj["tf"].num]]
  ELSE <<>>

\* IndexItem.UnmarshalJSON: ok is FALSE when json.Unmarshal into the map
\* fails; ii is the trie below the decoded node, which is its root.
\* json.Unmarshal of null into a map gives the nil map and no error, and
\* the loop over it sets nothing.
RECURSIVE UnmarshalJSON(_)
UnmarshalJSON(data) ==
  IF data.t = "null"
  THEN [ok |-> TRUE, ii |-> NewInvertedIndex]
  ELSE IF data.t # "object"
  THEN [ok |-> FALSE, ii |-> NewInvertedIndex]
  ELSE LET dataMap == data.obj
           root == [Docs |-> IF "docs" \in DOMAIN dataMap
                             THEN parseDocs(dataMap["docs"])
                             ELSE <<>>,
                    DF |-> IF "df" \in DOMAIN dataMap /\ dataMap["df"].t = "number"
                           THEN dataMap["df"].num
                           ELSE 0]
           decoded == [key \in DOMAIN dataMap \ {"docs", "df"} |->
                         UnmarshalJSON(dataMap[key])]
           kept == {key \in DOMAIN decoded : decoded[key].ok}
           paths == {<<>>} \cup
                      UNION {{<<key>> \o q : q \in DOMAIN decoded[key].ii} : key \in kept}
       IN  [ok |-> TRUE,
            ii |-> [p \in paths |->
                      IF p = <<>> THEN root ELSE decoded[p[1]].ii[Tail(p)]]]

---------------------------------------------------------------------------
(* DocumentStore.                                                          *)

NewDocumentStore(save) == [Save |-> save, Docs |-> <<>>, DocInfo |-> <<>>, Length |-> 0]

StoreAddDocAlwaysCounts(ds, docRef, doc) ==
  [ds EXCEPT !.Length = @ + 1,
             !.Docs = (docRef :> (IF ds.Save THEN doc ELSE <<>>)) @@ @]

StoreAddDoc(ds, docRef, doc) ==
  [ds EXCEPT !.Length = IF docRef \in DOMAIN ds.Docs THEN @ ELSE @ + 1,
             !.Docs = (docRef :> (IF ds.Save THEN doc ELSE <<>>)) @@ @]

\* DocumentStore.GetDoc: the stored map and whether there is one
GetDoc(ds, docRef) ==
  IF docRef \in DOMAIN ds.Docs
  THEN [doc |-> ds.Docs[docRef], exists |-> TRUE]
  ELSE [doc |-> <<>>, exists |-> FALSE]

HasDoc(ds, docRef) == docRef \in DOMAIN ds.Docs

AddFieldLengthReplacing(ds, docRef, field, length) ==
  [ds EXCEPT !.DocInfo = (docRef :> (field :> length)) @@ @]

AddFieldLength(ds, docRef, field, length) ==
  LET info == IF docRef \in DOMAIN ds.DocInfo THEN ds.DocInfo[docRef] ELSE <<>>
  IN  [ds EXCEPT !.DocInfo = (docRef :> ((field :> length) @@ info)) @@ @]

GetFieldLength(ds, docRef, field) ==
  IF docRef \in DOMAIN ds.DocInfo /\ field \in DOMAIN ds.DocInfo[docRef]
  THEN ds.DocInfo[docRef][field]
  ELSE 0

---------------------------------------------------------------------------
(* Index.                                                                  *)

Range(seq) == {seq[i] : i \in 1..Len(seq)}

NewIndex(fields) ==
  [Fields |-> fields,
   FieldIndexes |-> [field \in Range(fields) |-> NewInvertedIndex],
   Ref |-> "id",
   Version |-> ElasticlunrVersion,
   Pipeline |-> <<"trimmer", "stopWordFilter", "stemmer">>,
   Lang |-> "English",
   DocumentStore |-> NewDocumentStore(TRUE)]

\* 10^WeightDigits: a term frequency is held as a fixed-point number
Scale == 10 ^ WeightDigits

\* the largest r in lo..hi with r * r <= n, by bisection
RECURSIVE isqrt(_, _, _)
isqrt(n, lo, hi) ==
  IF lo = hi
  THEN lo
  ELSE LET mid == (lo + hi + 1) \div 2
       IN  IF mid * mid <= n THEN isqrt(n, mid, hi) ELSE isqrt(n, lo, mid - 1)

\* math.Sqrt(float64(count)), to WeightDigits digits
Sqrt(count) == isqrt(count * Scale * Scale, 0, count * Scale)

isStopWordAfterStem(token) == token \in stopWords \/ stem(token) \in stopWords

\* stopWords[token]
isStopWord(token) == token \in stopWords

\* the pipeline loop over the tokens of one field: stop words are skipped,
\* the others stemmed, and the non-empty stems appended to processedTokens
processTokens(tokens) ==
  LET kept == SelectSeq(tokens, LAMBDA token : ~isStopWord(token))
      stemmed == [i \in 1..Len(kept) |-> stem(kept[i])]
  IN  SelectSeq(stemmed, LAMBDA stemmed1 : stemmed1 # <<>>)

fieldLengthOfAll(processedTokens) == Len(processedTokens)

\* len(uniqueTokens)
fieldLengthOf(processedTokens) == Cardinality(Range(processedTokens))

\* tokenFreq[field][token]++ for every token of processedTokens, on the
\* map freq that tokenFreq[field] holds before the loop
Tally(freq, processedTokens) ==
  [token \in DOMAIN freq \cup Range(processedTokens) |->
     (IF token \in DOMAIN freq THEN freq[token] ELSE 0)
       + Cardinality({i \in 1..Len(processedTokens) : processedTokens[i] = token})]

\* the loop over tokenFreq[field]: one AddToken per key, with the square
\* root of its count.  Go leaves the order of the keys open; the postings
\* of different tokens end at different nodes, so every order gives the
\* same trie.  calls collects the AddToken calls made.
RECURSIVE AddTokens(_, _, _, _, _, _)
AddTokens(ii, calls, field, docRef, freq, todo) ==
  IF todo = {}
  THEN [ii |-> ii, calls |-> calls]
  ELSE LET token == CHOOSE t \in todo : TRUE
       IN  AddTokens(AddToken(ii, docRef, token, Sqrt(freq[token])),
                     calls \cup {<<field, token, docRef>>},
                     field, docRef, freq, todo \ {token})

isRefFieldNever(x, field) == FALSE

\* field == idx.Ref: the reference field is passed over
isRefField(x, field) == field = x.Ref

fieldExistsAlways(doc, field) == TRUE

\* fieldVal, exists := doc[field]: a field the document lacks is passed over
fieldExists(doc, field) == field \in DOMAIN doc

\* the loop over idx.Fields from entry i on; st holds the index, the
\* tokenFreq map of this call and the AddToken calls made so far
RECURSIVE addDocFields(_, _, _, _)
addDocFields(st, doc, docRef, i) ==
  IF i > Len(st.idx.Fields)
  THEN st
  ELSE LET field == st.idx.Fields[i]
       IN  IF isRefField(st.idx, field) \/ ~fieldExists(doc, field)
           THEN addDocFields(st, doc, docRef, i + 1)
           ELSE LET fieldStr == Sprintf(MapGet(doc, field))
                    processedTokens == processTokens(tokenize(fieldStr))
                    ds == AddFieldLength(st.idx.DocumentStore, docRef, field,
                                         fieldLengthOf(processedTokens))
                    freq == Tally(IF field \in DOMAIN st.tokenFreq
                                  THEN st.tokenFreq[field]
                                  ELSE <<>>,
                                  processedTokens)
                    added == AddTokens(st.idx.FieldIndexes[field], st.calls, field,
                                       docRef, freq, DOMAIN freq)
                IN  addDocFields(
                      [idx |-> [st.idx EXCEPT !.DocumentStore = ds,
                                              !.FieldIndexes[field] = added.ii],
                       tokenFreq |-> (field :> freq) @@ st.tokenFreq,
                       calls |-> added.calls],
                      doc, docRef, i + 1)

docCopyVerbatim(x, doc, docRef) == doc

\* docCopy: a new map with the entries of doc, the value under the
\* reference field replaced by docRef
docCopy(x, doc, docRef) ==
  [key \in DOMAIN doc |-> IF key = x.Ref THEN StringValue(docRef) ELSE doc[key]]

\* the map object AddDoc hands to DocumentStore.AddDoc: docCopy, which the
\* call has made, not the caller's doc
handedToStore == "docCopy"

AddDocNumbering(x, doc) ==
  LET docRef == IF x.Ref \in DOMAIN doc THEN Sprintf(MapGet(doc, x.Ref))
                ELSE <<"#">> \o Itoa(x.DocumentStore.Length + 1)
      stored == [x EXCEPT !.DocumentStore = StoreAddDoc(@, docRef, docCopy(x, doc, docRef))]
  IN  addDocFields([idx |-> stored, tokenFreq |-> <<>>, calls |-> {}], doc, docRef, 1)

\* Index.AddDoc: the index after the call and the AddToken calls it made
AddDoc(x, doc) ==
  LET docRef == Sprintf(MapGet(doc, x.Ref))
      stored == [x EXCEPT !.DocumentStore = StoreAddDoc(@, docRef, docCopy(x, doc, docRef))]
  IN  addDocFields([idx |-> stored, tokenFreq |-> <<>>, calls |-> {}], doc, docRef, 1)

ToMapWithoutRef(x) ==
  [documentStore |-> x.DocumentStore,
   index |-> [fieldName \in DOMAIN x.FieldIndexes \ {x.Ref} |->
                [root |-> x.FieldIndexes[fieldName]]],
   lang |-> x.Lang,
   pipeline |-> x.Pipeline,
   ref |-> x.Ref,
   version |-> x.Version,
   fields |-> x.Fields]

ToMapIndexedFields(x) ==
  [documentStore |-> x.DocumentStore,
   index |-> [fieldName \in DOMAIN x.FieldIndexes |->
                [root |-> x.FieldIndexes[fieldName]]],
   lang |-> x.Lang,
   pipeline |-> x.Pipeline,
   ref |-> x.Ref,
   version |-> x.Version,
   fields |-> SelectSeq(x.Fields, LAMBDA field : field # x.Ref)]

\* Index.ToMap: the trie of every entry of FieldIndexes under a "root" key,
\* beside the fixed values and the document store
ToMap(x) ==
  [documentStore |-> x.DocumentStore,
   index |-> [fieldName \in DOMAIN x.FieldIndexes |->
                [root |-> x.FieldIndexes[fieldName]]],
   lang |-> x.Lang,
   pipeline |-> x.Pipeline,
   ref |-> x.Ref,
   version |-> x.Version,
   fields |-> x.Fields]

---------------------------------------------------------------------------
(* The inputs of the model.                                                *)

TextRunning ==
  <<"R", "u", "n", "n", "i", "n", "g", " ", "r", "u", "n", "s", " ",
    "r", "u", "n", "-", "t", "h", "e">>

TextRun == <<"r", "u", "n">>

TextThes == <<"T", "h", "e", " ", "t", "h", "e", "s">>

FieldLists ==
  { <<"id", "title", "body">>,
    <<"title", "body">>,
    <<"id", "body", "body">> }

\* a document with the given values; a nil value leaves the key out
MakeDoc(id, title, body) ==
  LET all == [id |-> id, title |-> title, body |-> body]
  IN  [key \in {k \in DOMAIN all : all[k] # NilValue} |-> all[key]]

IdValues == {NilValue, IntValue(1), IntValue(2)}

\* the title and body a document is given
Contents ==
  { <<StringValue(TextRun), StringValue(TextRunning)>>,
    <<StringValue(TextThes), NilValue>>,
    <<NilValue, StringValue(TextRun)>>,
    <<NilValue, NilValue>> }

Documents == { MakeDoc(id, c[1], c[2]) : id \in IdValues, c \in Contents }

\* bodies around the length limit: one word of n runes, all of one byte or
\* ending in a two-byte rune, alone or followed by a short word
LongWords ==
  { Rep(r, maxWordLengthToIndex + d) \o tail :
      r \in {"a", "A"}, d \in {-2, -1, 0}, tail \in {<<"a">>, <<"s">>, <<"é">>} }

LongDocuments ==
  { MakeDoc(id, NilValue, StringValue(word \o rest)) :
      id \in IdValues \ {NilValue},
      word \in LongWords,
      rest \in {<<>>, <<" ", "r", "u", "n">>} }

DocRefs == {Itoa(1), Itoa(2)}

Tokens == {<<>>, TextRun}

TermFreqs == {Sqrt(1), Sqrt(2)}

---------------------------------------------------------------------------
(* The Index as a state machine: idx is the Index, last the call made      *)
(* last (with, for AddDoc, the AddToken calls it made), posted the (field,  *)
(* token, docRef) of every AddToken call that reached a node, nops the     *)
(* number of calls made.                                                   *)

NoCall ==
  [op |-> "NewIndex", doc |-> <<>>, docRef |-> <<>>, field |-> "", token |-> <<>>,
   termFreq |-> 0, calls |-> {}]

Init ==
  /\ \E fields \in FieldLists : idx = NewIndex(fields)
  /\ last = NoCall
  /\ posted = {}
  /\ nops = 0
  /\ arg = <<>>
  /\ ret = <<>>
  /\ pc = "idle"

DoAddDoc(doc) ==
  LET done == AddDoc(idx, doc)
  IN  /\ idx' = done.idx
      /\ posted' = posted \cup done.calls
      /\ last' = [NoCall EXCEPT !.op = "AddDoc", !.doc = doc,
                                !.docRef = Sprintf(MapGet(doc, idx.Ref)),
                                !.calls = done.calls]
      /\ nops' = nops + 1
      /\ UNCHANGED <<arg, ret, pc>>

CallAddDoc == \E doc \in Documents : nops < MaxOps /\ DoAddDoc(doc)

CallAddToken ==
  \E field \in DOMAIN idx.FieldIndexes, docRef \in DocRefs, token \in Tokens,
     termFreq \in TermFreqs :
    /\ nops < MaxOps
    /\ idx' = [idx EXCEPT !.FieldIndexes[field] = AddToken(@, docRef, token, termFreq)]
    /\ posted' = IF len(token) = 0 THEN posted ELSE posted \cup {<<field, token, docRef>>}
    /\ last' = [NoCall EXCEPT !.op = "AddToken", !.docRef = docRef, !.field = field,
                              !.token = token, !.termFreq = termFreq]
    /\ nops' = nops + 1
    /\ UNCHANGED <<arg, ret, pc>>

\* the trie of a field is serialized and a trie rebuilt from the result:
\* arg is the JSON, ret the rebuilt trie
CallRoundTrip ==
  \E field \in DOMAIN idx.FieldIndexes :
    /\ nops < MaxOps
    /\ arg' = MarshalJSON(idx.FieldIndexes[field], <<>>)
    /\ ret' = UnmarshalJSON(arg').ii
    /\ last' = [NoCall EXCEPT !.op = "RoundTrip", !.field = field]
    /\ nops' = nops + 1
    /\ UNCHANGED <<idx, posted, pc>>

Next == CallAddDoc \/ CallAddToken \/ CallRoundTrip

Spec == Init /\ [][Next]_vars

\* documents with words around the length limit
CallAddLongDoc == \E doc \in LongDocuments : nops < MaxLongOps /\ DoAddDoc(doc)

NextLong == CallAddLongDoc

SpecLong == Init /\ [][NextLong]_vars

\* an Index that only documents are added to, as the site build does
NextDocs == CallAddDoc

SpecDocs == Init /\ [][NextDocs]_vars

\* the DocumentStore on its own: the store of the Index is made with either
\* save flag (DocumentStore is an exported field of Index), and documents
\* reach it through Index.AddDoc or by DocumentStore.AddDoc itself
StoreDocs == {<<>>, MakeDoc(IntValue(1), StringValue(TextRun), NilValue)}

StoreRefs == DocRefs \cup {Sprintf(NilValue)}

InitStore ==
  /\ \E fields \in FieldLists, save \in BOOLEAN :
       idx = [NewIndex(fields) EXCEPT !.DocumentStore = NewDocumentStore(save)]
  /\ last = NoCall
  /\ posted = {}
  /\ nops = 0
  /\ arg = <<>>
  /\ ret = <<>>
  /\ pc = "idle"

CallStoreAddDoc ==
  \E docRef \in StoreRefs, doc \in StoreDocs :
    /\ nops < MaxOps
    /\ idx' = [idx EXCEPT !.DocumentStore = StoreAddDoc(@, docRef, doc)]
    /\ last' = [NoCall EXCEPT !.op = "StoreAddDoc", !.docRef = docRef, !.doc = doc]
    /\ nops' = nops + 1
    /\ UNCHANGED <<posted, arg, ret, pc>>

NextStore == CallStoreAddDoc \/ CallAddDoc

SpecStore == InitStore /\ [][NextStore]_vars

---------------------------------------------------------------------------
(* tokenize and stem as functions: arg is the input drawn, ret the result  *)
(* once pc is "done".                                                      *)

RECURSIVE Concat(_)
Concat(parts) == IF parts = <<>> THEN <<>> ELSE Head(parts) \o Concat(Tail(parts))

\* the sequences of at most n members of S
SeqsUpTo(S, n) == UNION {[1..k -> S] : k \in 0..n}

Segments ==
  { <<"a">>, <<"B">>, <<" ">>, <<"-">>, <<",">>, <<"é">>,
    Rep("a", maxWordLengthToIndex - 2) }

TokenizeInputs == {Concat(parts) : parts \in SeqsUpTo(Segments, MaxSegs)}

InitPure(inputs) ==
  /\ idx = NewIndex(<<>>)
  /\ last = NoCall
  /\ posted = {}
  /\ nops = 0
  /\ arg \in inputs
  /\ ret = <<>>
  /\ pc = "call"

InitTokenize == InitPure(TokenizeInputs)

CallTokenize ==
  /\ pc = "call"
  /\ ret' = tokenize(arg)
  /\ pc' = "done"
  /\ UNCHANGED <<idx, last, posted, nops, arg>>

NextTokenize == CallTokenize

SpecTokenize == InitTokenize /\ [][NextTokenize]_vars

StemBases == {Rep("x", k) : k \in 0..4} \cup {<<"x", "é">>}

StemSuffixes ==
  {step1Suffixes[i].suffix : i \in 1..Len(step1Suffixes)}
    \cup {<<"e", "d">>, <<"i", "n", "g">>}
    \cup Range(step3Suffixes) \cup Range(step4Suffixes)

StemInputs ==
  {base \o Concat(parts) : base \in StemBases, parts \in SeqsUpTo(StemSuffixes, MaxSuffixes)}

InitStem == InitPure(StemInputs)

CallStem ==
  /\ pc = "call"
  /\ ret' = stem(arg)
  /\ pc' = "done"
  /\ UNCHANGED <<idx, last, posted, nops, arg>>

NextStem == CallStem

SpecStem == InitStem /\ [][NextStem]_vars

\* a caller that keeps its document after AddDoc and writes to it: arg is
\* the caller's map as it is now, ret the map object the store holds for
\* each reference ("doc", the caller's own map, or "docCopy").  A write to
\* the caller's map shows in every store entry that is that same map.
CallerKeys == {"title", "extra"}

InitCopy ==
  /\ \E fields \in FieldLists : idx = NewIndex(fields)
  /\ last = NoCall
  /\ posted = {}
  /\ nops = 0
  /\ arg \in Documents
  /\ ret = <<>>
  /\ pc = "idle"

CallAddDocOfCaller ==
  /\ nops < MaxOps
  /\ idx' = AddDoc(idx, arg).idx
  /\ ret' = (Sprintf(MapGet(arg, idx.Ref)) :> handedToStore) @@ ret
  /\ posted' = posted \cup AddDoc(idx, arg).calls
  /\ last' = [NoCall EXCEPT !.op = "AddDoc", !.doc = arg,
                            !.docRef = Sprintf(MapGet(arg, idx.Ref)),
                            !.calls = AddDoc(idx, arg).calls]
  /\ nops' = nops + 1
  /\ UNCHANGED <<arg, pc>>

\* doc[key] = val, or delete(doc, key), by the caller
CallerWrites ==
  \E key \in CallerKeys, val \in {NilValue, StringValue(TextThes)} :
    /\ nops < MaxOps
    /\ arg' = IF val = NilValue
              THEN [k \in DOMAIN arg \ {key} |-> arg[k]]
              ELSE (key :> val) @@ arg
    /\ idx' = [idx EXCEPT !.DocumentStore.Docs =
                 [r \in DOMAIN @ |-> IF ret[r] = "doc" THEN arg' ELSE @[r]]]
    /\ last' = [last EXCEPT !.op = "CallerWrites"]
    /\ nops' = nops + 1
    /\ UNCHANGED <<posted, ret, pc>>

NextCopy == CallAddDocOfCaller \/ CallerWrites

SpecCopy == InitCopy /\ [][NextCopy]_vars

\* IndexItem.UnmarshalJSON as a function of externally authored JSON: an
\* object with some of the keys docs, df and edge labels, each with a value
\* of any JSON type
JSONKeys == <<"docs", "df", "a", "b">>

JSONValues ==
  { JNull, JNumber(2), JString, JObject(<<>>),
    JObject("1" :> JObject("tf" :> JNumber(Sqrt(1)))),
    JObject("1" :> JNumber(1)),
    JObject("df" :> JNumber(1)) }

UnmarshalInputs ==
  { JObject(o) : o \in UNION { [keys -> JSONValues] :
                                 keys \in SUBSET {JSONKeys[i] : i \in 1..MaxJSONKeys} } }

InitUnmarshal == InitPure(UnmarshalInputs)

CallUnmarshal ==
  /\ pc = "call"
  /\ ret' = UnmarshalJSON(arg)
  /\ pc' = "done"
  /\ UNCHANGED <<idx, last, posted, nops, arg>>

NextUnmarshal == CallUnmarshal

SpecUnmarshal == InitUnmarshal /\ [][NextUnmarshal]_vars

---------------------------------------------------------------------------
(* The searchindex.js embedding (generateSearchIndex).                     *)

\* strings.ReplaceAll(s, old, new) for an old of one rune
ReplaceAll(s, old, new) ==
  Concat([i \in 1..Len(s) |-> IF s[i] = old THEN new ELSE <<s[i]>>])

escapeQuotesFirst(jsonStr) ==
  ReplaceAll(ReplaceAll(jsonStr, "'", <<"\\", "'">>), "\\", <<"\\", "\\">>)

\* the two ReplaceAll calls on jsonStr: backslashes, then single quotes
escapeForJS(jsonStr) ==
  ReplaceAll(ReplaceAll(jsonStr, "\\", <<"\\", "\\">>), "'", <<"\\", "'">>)

\* the JSON texts: runes that are escaped, and runes that are not
JSONRunes == {"\\", "'", "a", "\""}

EscapeInputs == SeqsUpTo(JSONRunes, MaxJSONLen)

InitEscape == InitPure(EscapeInputs)

CallEscape ==
  /\ pc = "call"
  /\ ret' = escapeForJS(arg)
  /\ pc' = "done"
  /\ UNCHANGED <<idx, last, posted, nops, arg>>

NextEscape == CallEscape

SpecEscape == InitEscape /\ [][NextEscape]_vars

---------------------------------------------------------------------------
(* Notions the properties are stated with.                                 *)

\* the fields AddDoc is to index: the fields of the index other than the
\* reference field
IndexedFields == Range(idx.Fields) \ {idx.Ref}

\* the words of a text: its maximal runs of runes that are neither
\* whitespace nor the hyphen, in the order of the text
WordBreaks == {" ", "\t", "\n", "\r", "-"}

WordStarts(text) ==
  {i \in 1..Len(text) :
     text[i] \notin WordBreaks /\ (i = 1 \/ text[i - 1] \in WordBreaks)}

WordAt(text, i) ==
  LET j == CHOOSE e \in i..Len(text) :
             /\ \A k \in i..e : text[k] \notin WordBreaks
             /\ (e = Len(text) \/ text[e + 1] \in WordBreaks)
  IN  SubSeq(text, i, j)

\* the members of a set of numbers in rising order
Rising(S) == [n \in 1..Cardinality(S) |-> CHOOSE i \in S : Cardinality({j \in S : j <= i}) = n]

Words(text) == [n \in 1..Cardinality(WordStarts(text)) |-> WordAt(text, Rising(WordStarts(text))[n])]

\* the stems a field value contributes: the stems of its tokens that are
\* not stopwords, and how often each occurs
StemsOf(value) ==
  LET tokens == tokenize(Sprintf(value))
  IN  [i \in {k \in 1..Len(tokens) : tokens[k] \notin stopWords} |-> stem(tokens[i])]

StemSet(value) == {StemsOf(value)[i] : i \in DOMAIN StemsOf(value)}

StemCount(value, s) == Cardinality({i \in DOMAIN StemsOf(value) : StemsOf(value)[i] = s})

DocsAt(ii, token) == IF token \in DOMAIN ii THEN ii[token].Docs ELSE <<>>

\* the last call was AddDoc, of a document that has field
AddedField(field) == last.op = "AddDoc" /\ field \in DOMAIN last.doc

---------------------------------------------------------------------------
(* Properties.                                                             *)

\* C1: in every state reached by AddToken and AddDoc calls, every node of
\* every field's trie has DF equal to the number of keys of its Docs, and
\* the document frequency of every token is the number of distinct
\* references posted for it in that field, however often a pair was posted.
C1_DocFrequencyIsDistinctRefs ==
  \A field \in DOMAIN idx.FieldIndexes :
    LET ii == idx.FieldIndexes[field]
        refsPosted(token) == {x[3] : x \in {y \in posted : y[1] = field /\ y[2] = token}}
    IN  /\ \A p \in DOMAIN ii : ii[p].DF = Cardinality(DOMAIN ii[p].Docs)
        /\ \A token \in DOMAIN ii \cup Tokens \cup {x[2] : x \in posted} :
             GetDocFrequency(ii, token) = Cardinality(refsPosted(token))

\* a pair is posted twice: by AddDoc of document 1 and then by AddToken
C1_Witness ==
  /\ last.op = "AddToken"
  /\ last.docRef = Itoa(1)
  /\ last.token = TextRun
  /\ last.field = "body"
  /\ Itoa(1) \in DOMAIN idx.DocumentStore.DocInfo
  /\ "body" \in DOMAIN idx.DocumentStore.DocInfo[Itoa(1)]
  /\ GetDocFrequency(idx.FieldIndexes["body"], TextRun) = 1

\* C2 as claimed: after AddDoc(d), for every field f of the index and every
\* token t of d[f] that is no stopword, has a non-empty stem and is at most
\* 80 long, the trie of f has stem(t) and lists the document under it.
C2_EveryFieldIndexed ==
  \A field \in Range(idx.Fields) :
    AddedField(field) =>
      \A t \in Range(tokenize(Sprintf(last.doc[field]))) :
        (t \notin stopWords /\ stem(t) # <<>> /\ len(t) <= maxWordLengthToIndex) =>
          /\ HasToken(idx.FieldIndexes[field], stem(t))
          /\ last.docRef \in DOMAIN GetDocs(idx.FieldIndexes[field], stem(t))

\* C2: the same for every field of the index other than the reference field.
C2_IndexedFieldsHaveTokens ==
  \A field \in IndexedFields :
    AddedField(field) =>
      \A t \in Range(tokenize(Sprintf(last.doc[field]))) :
        (t \notin stopWords /\ stem(t) # <<>> /\ len(t) <= maxWordLengthToIndex) =>
          /\ HasToken(idx.FieldIndexes[field], stem(t))
          /\ last.docRef \in DOMAIN GetDocs(idx.FieldIndexes[field], stem(t))

C2_Witness ==
  /\ AddedField("body")
  /\ AddedField("id")
  /\ "id" \in Range(idx.Fields)
  /\ last.doc["body"] = StringValue(TextRunning)
  /\ HasToken(idx.FieldIndexes["body"], <<"r", "u", "n", "n">>)

\* C3: a trie built by AddToken calls, serialized by MarshalJSON and rebuilt
\* by UnmarshalJSON, has the same nodes, and at every node the same Docs
\* (references and weights), the same DF and the same child edge labels.
C3_RoundTrip ==
  last.op = "RoundTrip" =>
    LET ii == idx.FieldIndexes[last.field]
    IN  /\ DOMAIN ret = DOMAIN ii
        /\ \A p \in DOMAIN ii :
             /\ ret[p].Docs = ii[p].Docs
             /\ ret[p].DF = ii[p].DF
             /\ Children(ret, p) = Children(ii, p)

C3_Witness ==
  /\ last.op = "RoundTrip"
  /\ \E p \in DOMAIN ret : Len(p) >= 3 /\ ret[p].DF = 1 /\ Children(ret, p) # {}

\* C4: AddToken(ref, token, w) for a pair already posted, token non-empty,
\* leaves the DF of the terminal node and every other node as they were,
\* and the weight stored for ref at the terminal node is then w.
C4_RepostKeepsDFSetsWeight ==
  [][(/\ last'.op = "AddToken"
      /\ nops' = nops + 1
      /\ last'.token # <<>>
      /\ <<last'.field, last'.token, last'.docRef>> \in posted)
     => LET ii == idx.FieldIndexes[last'.field]
            jj == idx'.FieldIndexes[last'.field]
            t == last'.token
        IN  /\ DOMAIN jj = DOMAIN ii
            /\ jj[t].DF = ii[t].DF
            /\ \A p \in DOMAIN ii \ {t} : jj[p] = ii[p]
            /\ DOMAIN jj[t].Docs = DOMAIN ii[t].Docs
            /\ \A r \in DOMAIN ii[t].Docs \ {last'.docRef} : jj[t].Docs[r] = ii[t].Docs[r]
            /\ jj[t].Docs[last'.docRef].TF = last'.termFreq
            /\ \A f \in DOMAIN idx.FieldIndexes \ {last'.field} :
                 idx'.FieldIndexes[f] = idx.FieldIndexes[f]]_vars

\* the pair (2, run) of the title is posted by AddDoc with weight sqrt(1)
\* and then by AddToken with weight sqrt(2)
C4_Witness ==
  /\ last.op = "AddToken"
  /\ last.docRef = Itoa(2)
  /\ last.token = TextRun
  /\ last.field = "title"
  /\ last.termFreq = Sqrt(2)
  /\ Itoa(2) \in DOMAIN idx.DocumentStore.DocInfo
  /\ "title" \in DOMAIN idx.DocumentStore.DocInfo[Itoa(2)]
  /\ idx.FieldIndexes["title"][TextRun] =
       [Docs |-> (Itoa(2) :> [TF |-> Sqrt(2)]), DF |-> 1]

\* C5 as claimed: after AddDoc of a document with a body, a word of the
\* body of exactly 80 characters is a token and is indexed under its stem
\* for the document; a word of 81 or more characters is no token, and when
\* it is the whole body, neither the lowercased word nor its stem is in the
\* body trie and the field length is 0.
C5_LimitInCharacters ==
  ("body" \in IndexedFields /\ AddedField("body")) =>
    LET text == Sprintf(last.doc["body"])
        ii == idx.FieldIndexes["body"]
    IN  \A n \in DOMAIN Words(text) :
          LET token == ToLower(Words(text)[n])
          IN  /\ Len(Words(text)[n]) = maxWordLengthToIndex =>
                   /\ token \in Range(tokenize(text))
                   /\ HasToken(ii, stem(token))
                   /\ last.docRef \in DOMAIN GetDocs(ii, stem(token))
              /\ Len(Words(text)[n]) > maxWordLengthToIndex =>
                   /\ token \notin Range(tokenize(text))
                   /\ Len(Words(text)) = 1 =>
                        /\ ~HasToken(ii, token)
                        /\ ~HasToken(ii, stem(token))
                        /\ GetFieldLength(idx.DocumentStore, last.docRef, "body") = 0

\* C5: the length is the number of bytes of the lowercased word, and a word
\* over the limit is dropped by the call: a word of exactly 80 bytes is a
\* token and is indexed under its stem for the document; a word of 81 or
\* more bytes is no token, and when it is the whole body, AddDoc makes no
\* AddToken call on the body trie (so that neither the word nor its stem is
\* in a body trie no call has posted to) and the field length is 0.
C5_LimitInBytes ==
  ("body" \in IndexedFields /\ AddedField("body")) =>
    LET text == Sprintf(last.doc["body"])
        ii == idx.FieldIndexes["body"]
    IN  \A n \in DOMAIN Words(text) :
          LET token == ToLower(Words(text)[n])
          IN  /\ len(token) = maxWordLengthToIndex =>
                   /\ token \in Range(tokenize(text))
                   /\ HasToken(ii, stem(token))
                   /\ last.docRef \in DOMAIN GetDocs(ii, stem(token))
              /\ len(token) > maxWordLengthToIndex =>
                   /\ token \notin Range(tokenize(text))
                   /\ Len(Words(text)) = 1 =>
                        /\ \A c \in last.calls : c[1] # "body"
                        /\ (\A c \in posted : c[1] # "body") =>
                             ~HasToken(ii, token) /\ ~HasToken(ii, stem(token))
                        /\ GetFieldLength(idx.DocumentStore, last.docRef, "body") = 0

\* a body of one word of 80 one-byte runes, indexed under its stem
C5_Witness ==
  /\ "body" \in IndexedFields
  /\ AddedField("body")
  /\ Sprintf(last.doc["body"]) = Rep("A", maxWordLengthToIndex - 1) \o <<"s">>
  /\ DocsAt(idx.FieldIndexes["body"], Rep("a", maxWordLengthToIndex - 1)) # <<>>
  /\ GetFieldLength(idx.DocumentStore, last.docRef, "body") = 1

Group1(w) ==
  CASE HasSuffix(w, <<"i", "e", "s">>) /\ len(w) - 3 > 3 -> SubSeq(w, 1, Len(w) - 3)
    [] HasSuffix(w, <<"e", "s">>) /\ len(w) - 2 > 2
         /\ ~(HasSuffix(w, <<"i", "e", "s">>) /\ len(w) - 3 > 3) -> SubSeq(w, 1, Len(w) - 2)
    [] HasSuffix(w, <<"s">>) /\ len(w) - 1 > 1
         /\ ~(HasSuffix(w, <<"e", "s">>) /\ len(w) - 2 > 2)
         /\ ~(HasSuffix(w, <<"i", "e", "s">>) /\ len(w) - 3 > 3) -> SubSeq(w, 1, Len(w) - 1)
    [] OTHER -> w

Group2(w) ==
  CASE HasSuffix(w, <<"e", "d">>) /\ len(w) > 4 -> SubSeq(w, 1, Len(w) - 2)
    [] HasSuffix(w, <<"i", "n", "g">>) /\ len(w) > 5 -> SubSeq(w, 1, Len(w) - 3)
    [] OTHER -> w

FirstCut(w, list) ==
  LET applies == {i \in 1..Len(list) : HasSuffix(w, list[i]) /\ len(w) > len(list[i]) + 2}
  IN  IF applies = {}
      THEN w
      ELSE SubSeq(w, 1, Len(w) - Len(list[Rising(applies)[1]]))

Group3List ==
  << <<"t", "i", "o", "n">>, <<"s", "i", "o", "n">>, <<"m", "e", "n", "t">>,
     <<"n", "e", "s", "s">>, <<"f", "u", "l">>, <<"l", "e", "s", "s">>,
     <<"i", "t", "y">>, <<"o", "u", "s">>, <<"i", "v", "e">>, <<"e", "n", "t">>,
     <<"a", "n", "t">>, <<"a", "b", "l", "e">>, <<"i", "b", "l", "e">>,
     <<"e", "n", "c", "e">>, <<"a", "n", "c", "e">> >>

Group4List == << <<"l", "y">>, <<"e", "r">>, <<"e", "s", "t">> >>

FourGroups(w) ==
  IF len(w) <= 2 THEN w ELSE FirstCut(FirstCut(Group2(Group1(w)), Group3List), Group4List)

C7_StemIsFourGroups ==
  /\ pc = "done" => ret = FourGroups(arg)
  /\ stem(<<"r", "u", "n", "n", "i", "n", "g">>) = <<"r", "u", "n", "n">>
  /\ stem(<<"s", "t", "u", "d", "i", "e", "s">>) = <<"s", "t", "u", "d">>
  /\ stem(<<"h", "a", "p", "p", "i", "n", "e", "s", "s">>)
       = <<"h", "a", "p", "p", "i", "n", "e", "s">>

\* two groups cut in turn: s, then ed
C7_Witness ==
  /\ pc = "done"
  /\ arg = <<"x", "x", "x", "e", "d", "s">>
  /\ ret = <<"x", "x", "x">>

\* C8: in AddDoc the stopword check is made on the lowercased token before
\* stemming and not after: a token that is a stopword adds no posting and
\* does not count in the field length, and every token that is no stopword
\* is indexed under its stem, also when the stem is a stopword.
C8_StopWordsCheckedBeforeStemming ==
  [][(last'.op = "AddDoc" /\ nops' = nops + 1) =>
      \A field \in IndexedFields :
        field \in DOMAIN last'.doc =>
          LET value == last'.doc[field]
              tokens == Range(tokenize(Sprintf(value)))
              ii == idx.FieldIndexes[field]
              jj == idx'.FieldIndexes[field]
          IN  /\ \A t \in tokens \cap stopWords :
                   t \notin StemSet(value) => DocsAt(jj, t) = DocsAt(ii, t)
              /\ \A t \in tokens \ stopWords :
                   last'.docRef \in DOMAIN DocsAt(jj, stem(t))
              /\ GetFieldLength(idx'.DocumentStore, last'.docRef, field)
                   = Cardinality({stem(t) : t \in tokens \ stopWords})]_vars

\* the title "The thes": the is dropped, thes is indexed under the
C8_Witness ==
  /\ "title" \in IndexedFields
  /\ AddedField("title")
  /\ last.doc["title"] = StringValue(TextThes)
  /\ <<"t", "h", "e">> \in stopWords
  /\ last.docRef \in DOMAIN DocsAt(idx.FieldIndexes["title"], <<"t", "h", "e">>)
  /\ GetFieldLength(idx.DocumentStore, last.docRef, "title") = 1

\* C9: after AddDoc(d) with reference ref, for every indexed field f that d
\* has and every stem s of that field, the weight stored for (ref, s) in
\* the trie of f is sqrt(c), c the number of tokens of d[f], stopwords
\* left out, that stem to s, for every field list given to NewIndex.
C9_WeightIsSqrtOfFieldCount ==
  \A field \in IndexedFields :
    AddedField(field) =>
      \A s \in StemSet(last.doc[field]) :
        /\ last.docRef \in DOMAIN DocsAt(idx.FieldIndexes[field], s)
        /\ DocsAt(idx.FieldIndexes[field], s)[last.docRef].TF
             = Sqrt(StemCount(last.doc[field], s))

\* C10: after AddDoc(d) with reference ref, for every indexed field f that
\* d has, GetFieldLength(ref, f) is the number of distinct stems of the
\* tokens of d[f] that are no stopwords, whatever the other fields hold.
C10_FieldLengthIsDistinctStems ==
  \A field \in IndexedFields :
    AddedField(field) =>
      GetFieldLength(idx.DocumentStore, last.docRef, field)
        = Cardinality(StemSet(last.doc[field]))

\* a body of three tokens with two distinct stems, beside a title
C10_Witness ==
  /\ AddedField("body")
  /\ AddedField("title")
  /\ {"title", "body"} \subseteq IndexedFields
  /\ last.doc["body"] = StringValue(TextRunning)
  /\ Len(processTokens(tokenize(TextRunning))) = 3
  /\ GetFieldLength(idx.DocumentStore, last.docRef, "body") = 2
  /\ GetFieldLength(idx.DocumentStore, last.docRef, "title") = 1


\* C11: DocumentStore.Length is the number of keys of Docs before and after
\* every call, and a DocumentStore.AddDoc or Index.AddDoc call raises it by
\* one when its reference was not a key of Docs and leaves it as it was
\* when it was, with the save flag set and with it clear.
C11_LengthIsDistinctRefs ==
  [][LET ds == idx.DocumentStore
         after == idx'.DocumentStore
     IN  /\ ds.Length = Cardinality(DOMAIN ds.Docs)
         /\ after.Length = Cardinality(DOMAIN after.Docs)
         /\ after.Save = ds.Save
         /\ last'.op \in {"AddDoc", "StoreAddDoc"} =>
              /\ last'.docRef \in DOMAIN after.Docs
              /\ after.Length =
                   ds.Length + (IF last'.docRef \in DOMAIN ds.Docs THEN 0 ELSE 1)]_vars

\* a reference stored a second time in a store that does not save: one key,
\* Length 1, an empty placeholder
C11_Witness ==
  /\ nops = 2
  /\ last.op = "StoreAddDoc"
  /\ last.doc # <<>>
  /\ ~idx.DocumentStore.Save
  /\ idx.DocumentStore.Length = 1
  /\ idx.DocumentStore.Docs[last.docRef] = <<>>

\* the map the Document Store is to hold for doc: doc with the value of the
\* reference field, where it has one, in its string form
StoredCopy(doc) ==
  [key \in DOMAIN doc |->
     IF key = idx.Ref THEN StringValue(Sprintf(doc[key])) ELSE doc[key]]

\* C12: when AddDoc is called for a reference right after an AddDoc for the
\* same reference, the store then holds the copy of the second document,
\* Length is as before the second call, and every stem that both documents
\* have in an indexed field f carries, for the reference, the square root
\* of its count in field f of the second document.
C12_ReAddOverwrites ==
  [][(/\ last.op = "AddDoc"
      /\ last'.op = "AddDoc"
      /\ last'.docRef = last.docRef)
     => /\ GetDoc(idx'.DocumentStore, last'.docRef)
             = [doc |-> StoredCopy(last'.doc), exists |-> TRUE]
        /\ idx'.DocumentStore.Length = idx.DocumentStore.Length
        /\ \A f \in IndexedFields :
             (f \in DOMAIN last.doc /\ f \in DOMAIN last'.doc) =>
               \A s \in StemSet(last.doc[f]) \cap StemSet(last'.doc[f]) :
                 /\ last'.docRef \in DOMAIN GetDocs(idx'.FieldIndexes[f], s)
                 /\ GetDocs(idx'.FieldIndexes[f], s)[last'.docRef]
                      = Sqrt(StemCount(last'.doc[f], s))]_vars

\* C13: the Index has one trie per listed field, the reference field "id"
\* included when it is listed, and after any sequence of AddDoc calls the
\* trie of "id" is empty: its root is its only node and has no docs and
\* DF 0.
C13_RefTrieStaysEmpty ==
  /\ DOMAIN idx.FieldIndexes = Range(idx.Fields)
  /\ idx.Ref \in Range(idx.Fields) =>
       LET ii == idx.FieldIndexes[idx.Ref]
       IN  /\ DOMAIN ii = {<<>>}
           /\ Children(ii, <<>>) = {}
           /\ ii[<<>>].Docs = <<>>
           /\ ii[<<>>].DF = 0

\* two documents with the ids 1 and 2 added to an Index that lists "id"
C13_Witness ==
  /\ nops = 2
  /\ idx.Ref \in Range(idx.Fields)
  /\ last.op = "AddDoc"
  /\ last.doc = MakeDoc(IntValue(2), StringValue(TextRun), StringValue(TextRunning))
  /\ DOMAIN idx.DocumentStore.Docs = {Itoa(1), Itoa(2)}
  /\ idx.FieldIndexes[idx.Ref] = NewInvertedIndex

\* C14 as claimed: for an Index with the fields id, title, body, the index
\* map of ToMap has an entry with a root key for title and for body and no
\* entry for id.
C14_NoIndexEntryForRef ==
  (idx.Fields = <<"id", "title", "body">> /\ last.op = "AddDoc") =>
    LET index == ToMap(idx).index
    IN  /\ \A f \in {"title", "body"} : f \in DOMAIN index /\ "root" \in DOMAIN index[f]
        /\ "id" \notin DOMAIN index

\* C14: for an Index with the fields id, title, body, the index map of
\* ToMap has an entry with a root key for title, for body and for id; the
\* root of the id entry is the empty trie, those of title and body are the
\* tries of the fields.
C14_IndexEntryForEveryField ==
  idx.Fields = <<"id", "title", "body">> =>
    LET index == ToMap(idx).index
    IN  /\ DOMAIN index = {"id", "title", "body"}
        /\ \A f \in DOMAIN index :
             /\ DOMAIN index[f] = {"root"}
             /\ index[f]["root"] = idx.FieldIndexes[f]
        /\ index["id"]["root"] = NewInvertedIndex

\* a document with id, title and body added to such an Index
C14_Witness ==
  /\ idx.Fields = <<"id", "title", "body">>
  /\ last.op = "AddDoc"
  /\ DOMAIN last.doc = {"id", "title", "body"}
  /\ HasToken(ToMap(idx).index["title"]["root"], TextRun)
  /\ HasToken(ToMap(idx).index["body"]["root"], TextRun)

\* the values of ToMap that do not depend on the documents, and its shape
ToMapFixed(m, x) ==
  /\ DOMAIN m = {"documentStore", "index", "lang", "pipeline", "ref", "version", "fields"}
  /\ m.ref = "id"
  /\ m.version = "0.9.5"
  /\ m.pipeline = <<"trimmer", "stopWordFilter", "stemmer">>
  /\ m.lang = "English"
  /\ m.documentStore = x.DocumentStore
  /\ \A i \in 1..Len(m.fields) :
       /\ m.fields[i] \in DOMAIN m.index
       /\ "root" \in DOMAIN m.index[m.fields[i]]

\* C15: ToMap of the Index that NewIndex(fields) returns has fields equal
\* to that list, and every AddDoc call leaves fields as it was; before and
\* after every call ref is "id", version "0.9.5", pipeline the triple
\* trimmer, stopWordFilter, stemmer, lang "English", documentStore the
\* document store, and every field of the list has an entry with a root
\* key in the index map.
C15_ToMapFixedValues ==
  /\ \A fields \in FieldLists : idx = NewIndex(fields) => ToMap(idx).fields = fields
  /\ [][/\ ToMap(idx').fields = ToMap(idx).fields
        /\ ToMapFixed(ToMap(idx), idx)
        /\ ToMapFixed(ToMap(idx'), idx')]_vars

\* ToMap after two documents with different ids
C15_Witness ==
  /\ nops = 2
  /\ last.op = "AddDoc"
  /\ ToMap(idx).fields = <<"id", "title", "body">>
  /\ ToMap(idx).documentStore.Length = 2
  /\ HasToken(ToMap(idx).index["body"]["root"], TextRun)

\* the JSON value found in data along the keys of path p
RECURSIVE JAt(_, _)
JAt(data, p) == IF p = <<>> THEN data ELSE JAt(data.obj[Head(p)], Tail(p))

\* C16: in the JSON that MarshalJSON emits for a trie, the value found
\* along the edge labels of every node is an object whose keys are "docs"
\* exactly when the node has docs, "df" exactly when its DF is above 0, and
\* the edge label (one rune) of each of its children, under which is the
\* child's object; no object has a "children" key, and docs and df carry
\* the node's postings and DF.
C16_MarshalIsFlat ==
  last.op = "RoundTrip" =>
    LET ii == idx.FieldIndexes[last.field]
    IN  \A p \in DOMAIN ii :
          LET o == JAt(arg, p)
          IN  /\ o.t = "object"
              /\ DOMAIN o.obj =
                   Children(ii, p)
                     \cup (IF ii[p].Docs # <<>> THEN {"docs"} ELSE {})
                     \cup (IF ii[p].DF > 0 THEN {"df"} ELSE {})
              /\ "children" \notin DOMAIN o.obj
              /\ \A key \in DOMAIN o.obj \ {"docs", "df"} :
                   Append(p, key) \in DOMAIN ii /\ JAt(arg, Append(p, key)).t = "object"
              /\ ii[p].DF > 0 => o.obj["df"] = JNumber(ii[p].DF)
              /\ ii[p].Docs # <<>> =>
                   /\ o.obj["docs"].t = "object"
                   /\ DOMAIN o.obj["docs"].obj = DOMAIN ii[p].Docs

\* the JSON of a trie that holds "run" for one document: the root has the
\* key r alone, the node of "run" has docs and df and no child
C16_Witness ==
  /\ last.op = "RoundTrip"
  /\ TextRun \in DOMAIN idx.FieldIndexes[last.field]
  /\ idx.FieldIndexes[last.field][TextRun].DF = 1
  /\ DOMAIN idx.FieldIndexes[last.field] = {<<>>} \cup Prefixes(TextRun)
  /\ DOMAIN arg.obj = {"r"}
  /\ DOMAIN JAt(arg, TextRun).obj = {"docs", "df"}

\* C17: UnmarshalJSON of a JSON object returns no error; the node has the
\* docs entries that are objects with a numeric tf (none when docs is no
\* object), the DF of a numeric df (0 otherwise), and a child for exactly
\* the other keys whose value is an object, the key being the edge label.
C17_UnmarshalSkipsMistyped ==
  pc = "done" =>
    LET dataMap == arg.obj
        others == DOMAIN dataMap \ {"docs", "df"}
        root == ret.ii[<<>>]
    IN  /\ ret.ok
        /\ DOMAIN root.Docs =
             IF "docs" \in DOMAIN dataMap /\ dataMap["docs"].t = "object"
             THEN {d \in DOMAIN dataMap["docs"].obj :
                     /\ dataMap["docs"].obj[d].t = "object"
                     /\ "tf" \in DOMAIN dataMap["docs"].obj[d].obj
                     /\ dataMap["docs"].obj[d].obj["tf"].t = "number"}
             ELSE {}
        /\ root.DF = IF "df" \in DOMAIN dataMap /\ dataMap["df"].t = "number"
                     THEN dataMap["df"].num
                     ELSE 0
        /\ Children(ret.ii, <<>>) = {key \in others : dataMap[key].t = "object"}

\* C18: after AddDoc(doc), and after any writes the caller then makes to
\* its doc, GetDoc of the reference returns a map with the keys doc had at
\* the call and, under every key, the value doc had, the reference field's
\* being in its string form; the store holds a map of its own.
C18_StoreOwnsCopy ==
  (last.op \in {"AddDoc", "CallerWrites"} /\ last.docRef # <<>>) =>
    /\ HasDoc(idx.DocumentStore, last.docRef)
    /\ GetDoc(idx.DocumentStore, last.docRef).exists
    /\ LET got == GetDoc(idx.DocumentStore, last.docRef).doc
       IN  /\ DOMAIN got = DOMAIN last.doc
           /\ \A key \in DOMAIN got :
                got[key] = IF key = idx.Ref
                           THEN StringValue(Sprintf(last.doc[key]))
                           ELSE last.doc[key]
    /\ ret[last.docRef] # "doc"

\* a document with the int id 1 was added, then the caller gave its map a
\* key: the store has the id as the string "1" and not the new key
C18_Witness ==
  /\ last.op = "CallerWrites"
  /\ last.docRef = Itoa(1)
  /\ last.doc["id"] = IntValue(1)
  /\ "extra" \in DOMAIN arg
  /\ "extra" \notin DOMAIN GetDoc(idx.DocumentStore, last.docRef).doc
  /\ GetDoc(idx.DocumentStore, last.docRef).doc["id"] = StringValue(Itoa(1))

\* the field length recorded for (docRef, field) in ds, <<>> when none is
RecordedLength(ds, docRef, field) ==
  IF docRef \in DOMAIN ds.DocInfo /\ field \in DOMAIN ds.DocInfo[docRef]
  THEN <<ds.DocInfo[docRef][field]>>
  ELSE <<>>

\* C19: every AddDoc call completes, whatever fields the document has; for
\* an indexed field f the document lacks it leaves the trie of f and what
\* is recorded as the length of (ref, f) as they were, and for an indexed
\* field the document has it records the number of distinct stems as the
\* length and posts the reference under every stem.
C19_AbsentFieldSkipped ==
  [][last'.op = "AddDoc" =>
          /\ nops' = nops + 1
          /\ HasDoc(idx'.DocumentStore, last'.docRef)
          /\ \A f \in IndexedFields :
               IF f \notin DOMAIN last'.doc
               THEN /\ idx'.FieldIndexes[f] = idx.FieldIndexes[f]
                    /\ RecordedLength(idx'.DocumentStore, last'.docRef, f)
                         = RecordedLength(idx.DocumentStore, last'.docRef, f)
               ELSE /\ RecordedLength(idx'.DocumentStore, last'.docRef, f)
                         = <<Cardinality(StemSet(last'.doc[f]))>>
                    /\ \A s \in StemSet(last'.doc[f]) :
                         last'.docRef \in DOMAIN GetDocs(idx'.FieldIndexes[f], s)]_vars

\* a document with a title and no body added to an Index of title and body
\* whose body trie holds "run" from an earlier document
C19_Witness ==
  /\ nops = 2
  /\ last.op = "AddDoc"
  /\ {"title", "body"} \subseteq IndexedFields
  /\ "title" \in DOMAIN last.doc
  /\ "body" \notin DOMAIN last.doc
  /\ HasToken(idx.FieldIndexes["body"], TextRun)
  /\ RecordedLength(idx.DocumentStore, last.docRef, "body") = <<>>
  /\ RecordedLength(idx.DocumentStore, last.docRef, "title") # <<>>

\* a JavaScript single-quoted literal read from the left: a backslash takes
\* the rune after it with it.  Unescape is the text the literal stands for
\* (\\ is \, \' is '), HasBareQuote whether a quote is met that no
\* backslash takes, which would end the literal.
RECURSIVE Unescape(_)
Unescape(s) ==
  IF s = <<>> THEN <<>>
  ELSE IF Head(s) = "\\" /\ Len(s) >= 2
       THEN <<s[2]>> \o Unescape(SubSeq(s, 3, Len(s)))
       ELSE <<Head(s)>> \o Unescape(Tail(s))

RECURSIVE HasBareQuote(_)
HasBareQuote(s) ==
  IF s = <<>> THEN FALSE
  ELSE IF Head(s) = "\\" /\ Len(s) >= 2
       THEN HasBareQuote(SubSeq(s, 3, Len(s)))
       ELSE Head(s) = "'" \/ HasBareQuote(Tail(s))

\* C20: the escaped text of every JSON text has no single quote outside an
\* escape, un-escaping it gives the JSON text again, and it is longer than
\* the JSON text by one backslash for each backslash and single quote.
C20_EscapeRoundTrip ==
  pc = "done" =>
    /\ ~HasBareQuote(ret)
    /\ Unescape(ret) = arg
    /\ Len(ret) = Len(arg) + Cardinality({i \in 1..Len(arg) : arg[i] \in {"\\", "'"}})

\* a text with a backslash right before a single quote
C20_Witness ==
  /\ pc = "done"
  /\ arg = <<"a", "\\", "'", "\"">>
  /\ ret = <<"a", "\\", "\\", "\\", "'", "\"">>

---------------------------------------------------------------------------
(* Preprocessor ordering: TopoSort and ResolvePreprocessorOrder.           *)
(* A preprocessor name is a string; a Go map is a function whose DOMAIN is *)
(* its key set; the order in which `range` visits a map is not fixed by    *)
(* the language, so every operator that ranges over a map takes the order  *)
(* of the visit as a sequence of the map's keys.                           *)

\* constraint entries (one name in one before or after list) of one call
MaxConstraints == 3

Perms(S) == {p \in [1..Cardinality(S) -> S] : Range(p) = S}

IntGet(m, key) == IF key \in DOMAIN m THEN m[key] ELSE 0

ListGet(m, key) == IF key \in DOMAIN m THEN m[key] ELSE <<>>

Put(m, key, value) == [k \in DOMAIN m \cup {key} |-> IF k = key THEN value ELSE m[k]]

NilError == [msg |-> "", nodes |-> {}]

\* the graph after `for _, name := range names`
RECURSIVE initNodes(_, _)
initNodes(names, g) ==
  IF names = <<>> THEN g
  ELSE LET name == Head(names)
           adjacency == IF name \in DOMAIN g.adjacency THEN g.adjacency
                        ELSE Put(g.adjacency, name, <<>>)
           inDegree == IF name \in DOMAIN g.inDegree THEN g.inDegree
                       ELSE Put(g.inDegree, name, 0)
       IN  initNodes(Tail(names), [adjacency |-> adjacency, inDegree |-> inDegree])

\* one edge from -> to: adjacency[from] = append(adjacency[from], to); inDegree[to]++
addEdge(g, from, to) ==
  [adjacency |-> Put(g.adjacency, from, Append(ListGet(g.adjacency, from), to)),
   inDegree |-> Put(g.inDegree, to, IntGet(g.inDegree, to) + 1)]

\* `for _, after := range afterList`
RECURSIVE afterEdgesOf(_, _, _)
afterEdgesOf(g, name, afterList) ==
  IF afterList = <<>> THEN g
  ELSE afterEdgesOf(addEdge(g, Head(afterList), name), name, Tail(afterList))

\* `for name, afterList := range after`, visiting the keys in the order keys
RECURSIVE afterEdges(_, _, _)
afterEdges(g, after, keys) ==
  IF keys = <<>> THEN g
  ELSE afterEdges(afterEdgesOf(g, Head(keys), after[Head(keys)]), after, Tail(keys))

\* `for _, before := range beforeList`
RECURSIVE beforeEdgesOf(_, _, _)
beforeEdgesOf(g, name, beforeList) ==
  IF beforeList = <<>> THEN g
  ELSE beforeEdgesOf(addEdge(g, name, Head(beforeList)), name, Tail(beforeList))

\* `for name, beforeList := range before`, visiting the keys in the order keys
RECURSIVE beforeEdges(_, _, _)
beforeEdges(g, before, keys) ==
  IF keys = <<>> THEN g
  ELSE beforeEdges(beforeEdgesOf(g, Head(keys), before[Head(keys)]), before, Tail(keys))

\* `for _, neighbor := range adjacency[current]`
RECURSIVE processNeighbors(_, _, _)
processNeighbors(neighbors, inDegree, queue) ==
  IF neighbors = <<>> THEN [inDegree |-> inDegree, queue |-> queue]
  ELSE LET neighbor == Head(neighbors)
           degree == IntGet(inDegree, neighbor) - 1
       IN  processNeighbors(Tail(neighbors), Put(inDegree, neighbor, degree),
                            IF degree = 0 THEN Append(queue, neighbor) ELSE queue)

\* `for len(queue) > 0`
RECURSIVE kahn(_, _, _, _)
kahn(queue, result, inDegree, adjacency) ==
  IF queue = <<>> THEN [result |-> result, inDegree |-> inDegree]
  ELSE LET current == Head(queue)
           step == processNeighbors(ListGet(adjacency, current), inDegree, Tail(queue))
       IN  kahn(step.queue, Append(result, current), step.inDegree, adjacency)

\* iter.after, iter.before and iter.queue are the orders in which the three
\* `range` loops over maps visit their keys
TopoSort(names, before, after, iter) ==
  LET g0 == initNodes(names, [adjacency |-> <<>>, inDegree |-> <<>>])
      g1 == afterEdges(g0, after, iter.after)
      g == beforeEdges(g1, before, iter.before)
      queue == SelectSeq(iter.queue, LAMBDA name : name \in DOMAIN g.inDegree /\ g.inDegree[name] = 0)
      run == kahn(queue, <<>>, g.inDegree, g.adjacency)
  IN  IF Len(run.result) # Len(names)
      THEN [isNil |-> TRUE, result |-> <<>>,
            err |-> [msg |-> "cycle detected in preprocessor ordering constraints involving: ",
                     nodes |-> {name \in DOMAIN run.inDegree : run.inDegree[name] > 0}]]
      ELSE [isNil |-> FALSE, result |-> run.result, err |-> NilError]

\* the key set of inDegree when the queue is filled
graphNodes(names, before, after) ==
  Range(names) \cup {k \in DOMAIN after : after[k] # <<>>}
    \cup UNION {Range(before[k]) : k \in DOMAIN before}

\* every way the three map visits can go
IterOrders(names, before, after) ==
  {[after |-> ia, before |-> ib, queue |-> iq] :
     ia \in Perms(DOMAIN after), ib \in Perms(DOMAIN before),
     iq \in Perms(graphNodes(names, before, after))}

TopoUniverse == <<"a", "b", "c">>

ConstraintEntries ==
  [kind : {"before", "after"}, name : Range(TopoUniverse), other : Range(TopoUniverse)]

\* the map (before or after, by kind) that a set of constraint entries makes
ConstraintMap(entries, kind) ==
  [name \in {e.name : e \in {x \in entries : x.kind = kind}} |->
     SelectSeq(TopoUniverse,
               LAMBDA other : [kind |-> kind, name |-> name, other |-> other] \in entries)]

TopoInputs ==
  {[names |-> SubSeq(TopoUniverse, 1, n),
    before |-> ConstraintMap(entries, "before"),
    after |-> ConstraintMap(entries, "after")] :
     n \in 0..Len(TopoUniverse),
     entries \in {S \in SUBSET ConstraintEntries : Cardinality(S) <= MaxConstraints}}

InitTopo == InitPure(TopoInputs)

CallTopoSort ==
  /\ pc = "call"
  /\ \E iter \in IterOrders(arg.names, arg.before, arg.after) :
       ret' = TopoSort(arg.names, arg.before, arg.after, iter)
  /\ pc' = "done"
  /\ UNCHANGED <<idx, last, posted, nops, arg>>

NextTopo == CallTopoSort

SpecTopo == InitTopo /\ [][NextTopo]_vars

\* the before map (kind "Before") or the after map (kind "After") that the
\* visit of customPreprocessors builds: only non-empty lists get a key
constraintsOf(customPreprocessors, kind) ==
  [name \in {n \in DOMAIN customPreprocessors : customPreprocessors[n][kind] # <<>>} |->
     customPreprocessors[name][kind]]

\* the Deduplicate loop
RECURSIVE unique(_, _)
unique(allNames, seen) ==
  IF allNames = <<>> THEN <<>>
  ELSE IF Head(allNames) \in seen THEN unique(Tail(allNames), seen)
  ELSE <<Head(allNames)>> \o unique(Tail(allNames), seen \cup {Head(allNames)})

\* iter.custom is the order in which `range customPreprocessors` visits the
\* keys, each appended to allNames
ResolvePreprocessorOrder(defaultPreprocessors, customPreprocessors, includeDefaults, iter) ==
  LET allNames == (IF includeDefaults THEN defaultPreprocessors ELSE <<>>)
                    \o iter.custom
      before == constraintsOf(customPreprocessors, "Before")
      after == constraintsOf(customPreprocessors, "After")
  IN  TopoSort(unique(allNames, {}), before, after, iter)

ResolveIterOrders(defaultPreprocessors, customPreprocessors, includeDefaults) ==
  LET before == constraintsOf(customPreprocessors, "Before")
      after == constraintsOf(customPreprocessors, "After")
      names == (IF includeDefaults THEN defaultPreprocessors ELSE <<>>)
  IN  {[custom |-> ic, after |-> ia, before |-> ib, queue |-> iq] :
         ic \in Perms(DOMAIN customPreprocessors),
         ia \in Perms(DOMAIN after), ib \in Perms(DOMAIN before),
         iq \in Perms(Range(names) \cup DOMAIN customPreprocessors
                        \cup graphNodes(<<>>, before, after))}

GetBuiltinPreprocessors == <<"index">>

CustomNames == <<"frontmatter", "custom-a">>

ConstraintTargets == GetBuiltinPreprocessors \o CustomNames

CustomEntries ==
  [kind : {"Before", "After"}, name : Range(CustomNames), other : Range(ConstraintTargets)]

\* the configuration of the custom preprocessors of the set configured, with
\* the constraint lists that a set of entries makes
CustomConfig(configured, entries) ==
  [name \in configured |->
     [Before |-> SelectSeq(ConstraintTargets,
                   LAMBDA other : [kind |-> "Before", name |-> name, other |-> other] \in entries),
      After |-> SelectSeq(ConstraintTargets,
                  LAMBDA other : [kind |-> "After", name |-> name, other |-> other] \in entries)]]

ResolveInputs ==
  {[customPreprocessors |-> CustomConfig(configured, entries), includeDefaults |-> d] :
     d \in BOOLEAN,
     configured \in SUBSET Range(CustomNames),
     entries \in {S \in SUBSET CustomEntries : Cardinality(S) <= MaxConstraints}}

InitResolve == InitPure(ResolveInputs)

CallResolvePreprocessorOrder ==
  /\ pc = "call"
  /\ \E iter \in ResolveIterOrders(GetBuiltinPreprocessors, arg.customPreprocessors,
                                    arg.includeDefaults) :
       ret' = ResolvePreprocessorOrder(GetBuiltinPreprocessors, arg.customPreprocessors,
                                       arg.includeDefaults, iter)
  /\ pc' = "done"
  /\ UNCHANGED <<idx, last, posted, nops, arg>>

NextResolve == CallResolvePreprocessorOrder

SpecResolve == InitResolve /\ [][NextResolve]_vars

---------------------------------------------------------------------------
(* The preprocessor runner: NewRunner, Runner.Run.                         *)
(* A chapter's Content is its sequence of lines; a nil Path is NilPath.    *)
(* The run of an external command is the environment's: outcome[name] says *)
(* whether the command of the external preprocessor name succeeds, and a   *)
(* command that succeeds hands the book back as it got it.                 *)

NilPath == ""

isBuiltinPreprocessor(name) == name \in {"index", "frontmatter"}

\* IndexPreprocessor.Process
IndexProcess(book) ==
  [j \in 1..Len(book) |->
     IF book[j].Path # NilPath /\ book[j].Path = "README.md"
     THEN [book[j] EXCEPT !.Name = "Introduction"]
     ELSE book[j]]

\* r.builtinPreprocessors[name](book), for a name that is a key of the map
runBuiltin(name, book) ==
  CASE name = "index" -> [err |-> NilError, book |-> IndexProcess(book)]

NewRunner(cfg, renderer) ==
  [cfg |-> cfg.Preprocessors,
   renderer |-> renderer,
   verbose |-> FALSE,
   disableExternals |-> FALSE,
   includeDefaults |-> cfg.UseDefaultPreprocessors,
   builtinPreprocessors |-> {"index"}]

SetDisableExternals(r, disable) == [r EXCEPT !.disableExternals = disable]

\* the customPreps map that Run builds from the configured preprocessors
customPreps(configuredPreprocessors) ==
  [name \in DOMAIN configuredPreprocessors |->
     [Before |-> configuredPreprocessors[name].Before,
      After |-> configuredPreprocessors[name].After]]

\* the renderer filter of Run: TRUE when the preprocessor is to be skipped
rendererFiltered(ppCfg, renderer) ==
  Len(ppCfg.Renderers) > 0 /\ renderer \notin Range(ppCfg.Renderers)

failed(name) == [msg |-> "preprocessor failed: ", nodes |-> {name}]

\* `for _, name := range orderedNames`: executed is the sequence of the names
\* whose in-process function or external command has been run
RECURSIVE runEach(_, _, _, _, _)
runEach(r, orderedNames, book, executed, outcome) ==
  IF orderedNames = <<>> THEN [err |-> NilError, executed |-> executed, book |-> book]
  ELSE
    LET name == Head(orderedNames)
        rest == Tail(orderedNames)
    IN  IF isBuiltinPreprocessor(name)
        THEN IF name \in r.builtinPreprocessors
             THEN LET done == runBuiltin(name, book)
                  IN  IF done.err # NilError
                      THEN [err |-> failed(name), executed |-> Append(executed, name),
                            book |-> done.book]
                      ELSE runEach(r, rest, done.book, Append(executed, name), outcome)
             ELSE runEach(r, rest, book, executed, outcome)
        ELSE IF r.disableExternals
             THEN runEach(r, rest, book, executed, outcome)
        ELSE IF name \notin DOMAIN r.cfg
             THEN runEach(r, rest, book, executed, outcome)
        ELSE IF rendererFiltered(r.cfg[name], r.renderer)
             THEN runEach(r, rest, book, executed, outcome)
        ELSE IF outcome[name] = "fail"
             THEN [err |-> failed(name), executed |-> Append(executed, name), book |-> book]
        ELSE runEach(r, rest, book, Append(executed, name), outcome)

\* Runner.Run; order is the result of ResolvePreprocessorOrder under iter
Run(r, book, outcome, iter) ==
  LET order == ResolvePreprocessorOrder(GetBuiltinPreprocessors, customPreps(r.cfg),
                                        r.includeDefaults, iter)
  IN  IF order.err # NilError
      THEN [err |-> [msg |-> "failed to resolve preprocessor order: ", nodes |-> order.err.nodes],
            order |-> order, executed |-> <<>>, book |-> book]
      ELSE LET done == runEach(r, order.result, book, <<>>, outcome)
           IN  [err |-> done.err, order |-> order, executed |-> done.executed,
                book |-> done.book]

RunnerNames == <<"frontmatter", "custom-a", "custom-b">>

Externals == {name \in Range(RunnerNames) : ~isBuiltinPreprocessor(name)}

\* the before/after entries a book.toml of the model can hold
ConstraintMenu ==
  {[kind |-> "Before", name |-> "custom-a", other |-> "custom-b"],
   [kind |-> "Before", name |-> "custom-b", other |-> "custom-a"],
   [kind |-> "After", name |-> "custom-b", other |-> "index"],
   [kind |-> "After", name |-> "frontmatter", other |-> "index"]}

RendererLists == {<<>>, <<"epub">>, <<"html", "epub">>}

ListOf(entries, kind, name) ==
  SelectSeq(GetBuiltinPreprocessors \o RunnerNames,
            LAMBDA other : [kind |-> kind, name |-> name, other |-> other] \in entries)

\* what cfg.GetPreprocessorConfigs() returns
PreprocessorConfigs ==
  UNION {[configured -> [Command : {""}, Renderers : RendererLists,
                         Before : {<<>>}, After : {<<>>}]] :
           configured \in SUBSET Range(RunnerNames)}

WithConstraints(configs, entries) ==
  [name \in DOMAIN configs |->
     [configs[name] EXCEPT !.Before = ListOf(entries, "Before", name),
                           !.After = ListOf(entries, "After", name)]]

Configs ==
  {[Preprocessors |-> WithConstraints(configs, entries), UseDefaultPreprocessors |-> d] :
     configs \in {c \in PreprocessorConfigs :
                    \A name \in DOMAIN c : isBuiltinPreprocessor(name) => c[name].Renderers = <<>>},
     entries \in SUBSET ConstraintMenu,
     d \in BOOLEAN}

FrontmatterLines == <<"---", "author: Jane Doe", "---", "">>

Chapter(name, content, path) ==
  [Name |-> name, Content |-> content, Path |-> path, IsDraft |-> FALSE]

TestBook ==
  <<Chapter("Test", FrontmatterLines \o <<"# Content">>, "test.md"),
    Chapter("Readme", <<"# Readme">>, "README.md")>>

RunInputs ==
  {[cfg |-> cfg, disableExternals |-> disable, outcome |-> outcome, book |-> TestBook] :
     cfg \in Configs, disable \in BOOLEAN, outcome \in [Externals -> {"ok", "fail"}]}

InitRun == InitPure(RunInputs)

CallRun ==
  /\ pc = "call"
  /\ LET r == SetDisableExternals(NewRunner(arg.cfg, "html"), arg.disableExternals)
     IN  \E iter \in ResolveIterOrders(GetBuiltinPreprocessors, customPreps(r.cfg),
                                        r.includeDefaults) :
           ret' = Run(r, arg.book, arg.outcome, iter)
  /\ pc' = "done"
  /\ UNCHANGED <<idx, last, posted, nops, arg>>

NextRun == CallRun

SpecRun == InitRun /\ [][NextRun]_vars

---------------------------------------------------------------------------
(* Properties of TopoSort.                                                 *)

\* the pairs <<x, y>> that the constraints order: x has to precede y
Mentioned(before, after) ==
  DOMAIN before \cup DOMAIN after
    \cup UNION {Range(before[k]) : k \in DOMAIN before}
    \cup UNION {Range(after[k]) : k \in DOMAIN after}

Precedences(before, after) ==
  {p \in Mentioned(before, after) \X Mentioned(before, after) :
     \/ p[1] \in DOMAIN before /\ p[2] \in Range(before[p[1]])
     \/ p[2] \in DOMAIN after /\ p[1] \in Range(after[p[2]])}

\* the names reachable from the names seen along at most k precedences
RECURSIVE ReachableFrom(_, _, _)
ReachableFrom(seen, prec, k) ==
  IF k = 0 THEN seen
  ELSE ReachableFrom(seen \cup {p[2] : p \in {q \in prec : q[1] \in seen}}, prec, k - 1)

After(name, prec) ==
  ReachableFrom({p[2] : p \in {q \in prec : q[1] = name}}, prec, Cardinality(prec))

HasCycle(before, after) ==
  LET prec == Precedences(before, after)
  IN  \E name \in Mentioned(before, after) : name \in After(name, prec)

PositionOf(result, name) == CHOOSE i \in 1..Len(result) : result[i] = name

Precedes(result, x, y) ==
  /\ x \in Range(result)
  /\ y \in Range(result)
  /\ PositionOf(result, x) < PositionOf(result, y)

EachExactlyOnce(result, names) ==
  /\ Len(result) = Len(names)
  /\ Range(result) = Range(names)

\* C21: for distinct names and before/after maps without a cycle, TopoSort
\* returns a nil error and a list that holds each name exactly once, in which
\* A precedes B for every B in before[A] and X precedes A for every X in
\* after[A].
C21_AcyclicIsSorted ==
  (pc = "done" /\ ~HasCycle(arg.before, arg.after)) =>
    /\ ret.err = NilError
    /\ ~ret.isNil
    /\ EachExactlyOnce(ret.result, arg.names)
    /\ \A p \in Precedences(arg.before, arg.after) : Precedes(ret.result, p[1], p[2])

\* C22: whenever the before/after constraints contain a cycle, TopoSort
\* returns a non-nil error with a non-empty message and a nil result, never a
\* partial ordering.
C22_CycleIsError ==
  (pc = "done" /\ HasCycle(arg.before, arg.after)) =>
    /\ ret.err # NilError
    /\ ret.err.msg # ""
    /\ ret.isNil
    /\ ret.result = <<>>

---------------------------------------------------------------------------
(* Properties of ResolvePreprocessorOrder.                                 *)

\* the names the order has to hold: the defaults when they are included and
\* every configured custom preprocessor
ExpectedNames(customPreprocessors, includeDefaults) ==
  (IF includeDefaults THEN Range(GetBuiltinPreprocessors) ELSE {})
    \cup DOMAIN customPreprocessors

\* C23: ResolvePreprocessorOrder returns each preprocessor name exactly once,
\* the default names only when includeDefaults is true, every configured
\* custom name, and an order that respects every configured before/after
\* constraint; with nothing configured and defaults enabled the order is
\* exactly [index]; frontmatter is in the order only when it is configured.
C23_ResolvedOrder ==
  pc = "done" =>
    LET customs == arg.customPreprocessors
        before == constraintsOf(customs, "Before")
        after == constraintsOf(customs, "After")
        expected == ExpectedNames(customs, arg.includeDefaults)
    IN  /\ ~HasCycle(before, after) => ret.err = NilError
        /\ ret.err = NilError =>
             /\ Len(ret.result) = Cardinality(expected)
             /\ Range(ret.result) = expected
             /\ \A p \in Precedences(before, after) :
                  (p[1] \in expected /\ p[2] \in expected) =>
                    Precedes(ret.result, p[1], p[2])
             /\ "frontmatter" \in Range(ret.result) => "frontmatter" \in DOMAIN customs
             /\ (DOMAIN customs = {} /\ arg.includeDefaults) =>
                  ret.result = GetBuiltinPreprocessors

---------------------------------------------------------------------------
(* Properties of Runner.Run.                                               *)

\* the content begins with a frontmatter block: a line ---, then a closing ---
BeginsWithFrontmatter(content) ==
  /\ Len(content) >= 2
  /\ content[1] = "---"
  /\ \E i \in 2..Len(content) : content[i] = "---"

\* C24: when frontmatter is configured, Run executes it on the book: after
\* Run no chapter's Content begins with a frontmatter block any more, and
\* every built-in name of the resolved order has been run in-process, none
\* skipped.
C24_FrontmatterIsRun ==
  (/\ pc = "done"
   /\ "frontmatter" \in DOMAIN arg.cfg.Preprocessors
   /\ ret.err = NilError) =>
    /\ \A j \in 1..Len(ret.book) : ~BeginsWithFrontmatter(ret.book[j].Content)
    /\ \A name \in Range(ret.order.result) :
         isBuiltinPreprocessor(name) => name \in Range(ret.executed)

---------------------------------------------------------------------------
(* The read accessors as calls: idx after the call, ret what it returns.   *)

\* the trie after the descent of GetNode from the node current over the
\* runes rest: `child, exists := current.Children[key]` reads the map and
\* the else branch returns
RECURSIVE getNodeFrom(_, _, _)
getNodeFrom(ii, current, rest) ==
  IF rest = <<>> THEN ii
  ELSE LET child == Append(current, Head(rest))
       IN  IF child \in DOMAIN ii THEN getNodeFrom(ii, child, Tail(rest)) ELSE ii

afterGetNodeCreating(ii, token) ==
  [p \in DOMAIN ii \cup Prefixes(token) |-> IF p \in DOMAIN ii THEN ii[p] ELSE NewIndexItem]

\* the trie after GetNode(token), and so after HasToken, GetDocs and
\* GetDocFrequency, which call GetNode and read the node's Docs or DF
afterGetNode(ii, token) == getNodeFrom(ii, <<>>, token)

\* the store after GetDoc(docRef), HasDoc(docRef) or
\* GetFieldLength(docRef, field): each reads ds.Docs or ds.DocInfo with the
\* two-value form and assigns nothing
afterStoreRead(ds, docRef, field) == ds

\* the Index after ToMap(): the fields are read into a new map
afterToMap(x) == x

ReadTokens == {<<>>, <<"r">>, TextRun, <<"r", "u", "n", "s">>, <<"x">>}

ReadRefs == DocRefs \cup {Sprintf(NilValue), <<"9">>}

ReadFields == {"id", "title", "body", "author"}

TrieAccessors == {"GetNode", "HasToken", "GetDocs", "GetDocFrequency"}

StoreAccessors == {"GetDoc", "HasDoc", "GetFieldLength"}

trieResult(op, ii, token) ==
  CASE op = "GetNode" -> GetNode(ii, token)
    [] op = "HasToken" -> HasToken(ii, token)
    [] op = "GetDocs" -> GetDocs(ii, token)
    [] op = "GetDocFrequency" -> GetDocFrequency(ii, token)

storeResult(op, ds, docRef, field) ==
  CASE op = "GetDoc" -> GetDoc(ds, docRef)
    [] op = "HasDoc" -> HasDoc(ds, docRef)
    [] op = "GetFieldLength" -> GetFieldLength(ds, docRef, field)

CallTrieAccessor ==
  \E op \in TrieAccessors, field \in DOMAIN idx.FieldIndexes, token \in ReadTokens :
    /\ nops < MaxOps
    /\ ret' = trieResult(op, idx.FieldIndexes[field], token)
    /\ idx' = [idx EXCEPT !.FieldIndexes[field] = afterGetNode(@, token)]
    /\ last' = [NoCall EXCEPT !.op = op, !.field = field, !.token = token]
    /\ nops' = nops + 1
    /\ UNCHANGED <<posted, arg, pc>>

CallStoreAccessor ==
  \E op \in StoreAccessors, docRef \in ReadRefs, field \in ReadFields :
    /\ nops < MaxOps
    /\ ret' = storeResult(op, idx.DocumentStore, docRef, field)
    /\ idx' = [idx EXCEPT !.DocumentStore = afterStoreRead(@, docRef, field)]
    /\ last' = [NoCall EXCEPT !.op = op, !.docRef = docRef, !.field = field]
    /\ nops' = nops + 1
    /\ UNCHANGED <<posted, arg, pc>>

CallToMap ==
  /\ nops < MaxOps
  /\ ret' = ToMap(idx)
  /\ idx' = afterToMap(idx)
  /\ last' = [NoCall EXCEPT !.op = "ToMap"]
  /\ nops' = nops + 1
  /\ UNCHANGED <<posted, arg, pc>>

NextRead == CallAddDoc \/ CallTrieAccessor \/ CallStoreAccessor \/ CallToMap

SpecRead == Init /\ [][NextRead]_vars

---------------------------------------------------------------------------
(* Documents added to a fresh Index one after the other: arg is the field  *)
(* list and the documents, ret the Index after the last AddDoc.            *)

\* idx.AddDoc(doc) for every doc of docs, in their order
RECURSIVE AddDocs(_, _)
AddDocs(x, docs) ==
  IF docs = <<>> THEN x ELSE AddDocs(AddDoc(x, Head(docs)).idx, Tail(docs))

RefOf(doc) == Sprintf(MapGet(doc, "id"))

\* sets of two or three documents with pairwise distinct references
DistinctRefSets ==
  {S \in SUBSET Documents :
     /\ Cardinality(S) \in 2..3
     /\ \A d, e \in S : d # e => RefOf(d) # RefOf(e)}

CommuteInputs == [fields : FieldLists, docs : DistinctRefSets]

InitCommute == InitPure(CommuteInputs)

CallAddDocs ==
  /\ pc = "call"
  /\ \E order \in Perms(arg.docs) : ret' = AddDocs(NewIndex(arg.fields), order)
  /\ pc' = "done"
  /\ UNCHANGED <<idx, last, posted, nops, arg>>

NextCommute == CallAddDocs

SpecCommute == InitCommute /\ [][NextCommute]_vars

---------------------------------------------------------------------------
(* Properties of the index, continued.                                     *)

\* the non-empty strings a lookup is made with: every node path, every token
\* of the calls, and a string that is never added
LookupStrings(ii) ==
  ((DOMAIN ii \cup Tokens \cup {x[2] : x \in posted}) \ {<<>>}) \cup {<<"x">>}

\* C25: in every state reached by AddToken calls, HasToken(t) is true exactly
\* when an earlier AddToken call posted the token t, that is when
\* GetDocFrequency(t) > 0, and false for every string never added as a token.
C25_HasTokenIsExact ==
  \A field \in DOMAIN idx.FieldIndexes :
    LET ii == idx.FieldIndexes[field]
    IN  \A t \in LookupStrings(ii) :
          /\ HasToken(ii, t) <=> (\E x \in posted : x[1] = field /\ x[2] = t)
          /\ HasToken(ii, t) <=> GetDocFrequency(ii, t) > 0

Accessors == TrieAccessors \cup StoreAccessors \cup {"ToMap"}

\* C26: GetNode, HasToken, GetDocs, GetDocFrequency, GetDoc, HasDoc,
\* GetFieldLength and ToMap are read-only: a call of any of them, with any
\* argument, in any reachable state, leaves every trie (nodes, Docs, DF), the
\* Document Store (Docs, DocInfo, Length) and the field list as they were; a
\* lookup of a missing token creates no trie node.
C26_AccessorsReadOnly ==
  [][(last'.op \in Accessors /\ nops' = nops + 1) =>
       /\ idx'.Fields = idx.Fields
       /\ idx'.DocumentStore = idx.DocumentStore
       /\ DOMAIN idx'.FieldIndexes = DOMAIN idx.FieldIndexes
       /\ \A field \in DOMAIN idx.FieldIndexes :
            /\ DOMAIN idx'.FieldIndexes[field] = DOMAIN idx.FieldIndexes[field]
            /\ idx'.FieldIndexes[field] = idx.FieldIndexes[field]]_vars

\* HasToken is called with a token that is missing from a trie that holds
\* the tokens of a document
C26_Witness ==
  /\ last.op = "HasToken"
  /\ last.field = "body"
  /\ last.token = <<"r", "u", "n", "s">>
  /\ ret = FALSE
  /\ TextRun \in DOMAIN idx.FieldIndexes["body"]
  /\ last.token \notin DOMAIN idx.FieldIndexes["body"]

\* C27: the index only grows: no AddToken or AddDoc call removes a trie node
\* or a posting or lowers a node's DF, and none removes a recorded field
\* length; after a reference is added again with a document that lacks a
\* field, the postings and the field length that the earlier document left
\* for that field are as they were.
C27_IndexOnlyGrows ==
  [][(last'.op \in {"AddToken", "AddDoc"} /\ nops' = nops + 1) =>
       /\ \A field \in DOMAIN idx.FieldIndexes :
            LET ii == idx.FieldIndexes[field]
                jj == idx'.FieldIndexes[field]
            IN  /\ DOMAIN ii \subseteq DOMAIN jj
                /\ \A p \in DOMAIN ii :
                     /\ DOMAIN ii[p].Docs \subseteq DOMAIN jj[p].Docs
                     /\ jj[p].DF >= ii[p].DF
                /\ (last'.op = "AddDoc" /\ field \notin DOMAIN last'.doc) => jj = ii
       /\ LET info == idx.DocumentStore.DocInfo
              info1 == idx'.DocumentStore.DocInfo
          IN  \A docRef \in DOMAIN info :
                /\ docRef \in DOMAIN info1
                /\ \A field \in DOMAIN info[docRef] :
                     /\ field \in DOMAIN info1[docRef]
                     /\ (last'.op = "AddDoc" /\ field \notin DOMAIN last'.doc) =>
                          info1[docRef][field] = info[docRef][field]]_vars

\* document 1 is added with a body and then again without one: the posting
\* of 1 under run in the body trie and the body length of 1 are still there,
\* although the stored document has no body
C27_Witness ==
  /\ last.op = "AddDoc"
  /\ last.docRef = Itoa(1)
  /\ "body" \notin DOMAIN last.doc
  /\ "body" \in DOMAIN idx.FieldIndexes
  /\ TextRun \in DOMAIN idx.FieldIndexes["body"]
  /\ Itoa(1) \in DOMAIN idx.FieldIndexes["body"][TextRun].Docs
  /\ GetFieldLength(idx.DocumentStore, Itoa(1), "body") > 0
  /\ "body" \notin DOMAIN idx.DocumentStore.Docs[Itoa(1)]

\* C28: AddDoc calls for documents with pairwise distinct references
\* commute: whatever the order in which the documents are added to a fresh
\* Index, the final state is the same, in every trie (nodes, Docs, weights,
\* DF) and in the Document Store (Docs, DocInfo, Length).
C28_AddDocCommutes ==
  pc = "done" =>
    \A order \in Perms(arg.docs) :
      LET other == AddDocs(NewIndex(arg.fields), order)
      IN  /\ other.FieldIndexes = ret.FieldIndexes
          /\ other.DocumentStore = ret.DocumentStore
          /\ other = ret

\* three documents, two of them with run in the body, have been added: the
\* node of run in the body trie lists two references
C28_Witness ==
  /\ pc = "done"
  /\ Cardinality(arg.docs) = 3
  /\ arg.fields = <<"id", "title", "body">>
  /\ ret.DocumentStore.Length = 3
  /\ GetDocFrequency(ret.FieldIndexes["body"], TextRun) = 2
  /\ GetDocFrequency(ret.FieldIndexes["title"], TextRun) = 1

NilRef == <<"<", "n", "i", "l", ">">>

\* C29: every document added without a value under the reference field id
\* resolves to the reference <nil>: the call stores the document under <nil>
\* in place of an earlier one, posts all its tokens under <nil>, and counts
\* in Length only when <nil> is new; while only such documents have been
\* added, Length is 1 and every token's DF is 1.
C29_MissingIdIsOneDocument ==
  [][(last'.op = "AddDoc" /\ nops' = nops + 1 /\ "id" \notin DOMAIN last'.doc) =>
       LET ds == idx.DocumentStore
           ds1 == idx'.DocumentStore
       IN  /\ last'.docRef = NilRef
           /\ NilRef \in DOMAIN ds1.Docs
           /\ ds1.Docs[NilRef] = last'.doc
           /\ ds1.Length = IF NilRef \in DOMAIN ds.Docs THEN ds.Length ELSE ds.Length + 1
           /\ \A x \in posted' \ posted : x[3] = NilRef
           /\ \A x \in last'.calls :
                /\ x[3] = NilRef
                /\ NilRef \in DOMAIN idx'.FieldIndexes[x[1]][x[2]].Docs
           /\ DOMAIN ds.Docs \subseteq {NilRef} =>
                /\ ds1.Length = 1
                /\ DOMAIN ds1.Docs = {NilRef}
                /\ \A field \in DOMAIN idx'.FieldIndexes :
                     \A p \in DOMAIN idx'.FieldIndexes[field] :
                       /\ DOMAIN idx'.FieldIndexes[field][p].Docs \subseteq {NilRef}
                       /\ idx'.FieldIndexes[field][p].DF =
                            Cardinality(DOMAIN idx'.FieldIndexes[field][p].Docs)
                /\ \A x \in posted' :
                     GetDocFrequency(idx'.FieldIndexes[x[1]], x[2]) = 1]_vars

\* two documents without id are added, the first with a title and a body,
\* the second with a body only: one stored document, the second, and run is
\* counted once in the body trie and still once in the title trie
C29_Witness ==
  /\ last.op = "AddDoc"
  /\ nops = 2
  /\ last.docRef = NilRef
  /\ "id" \notin DOMAIN last.doc
  /\ "title" \notin DOMAIN last.doc
  /\ idx.DocumentStore.Length = 1
  /\ idx.DocumentStore.Docs[NilRef] = last.doc
  /\ "title" \in DOMAIN idx.FieldIndexes
  /\ GetDocFrequency(idx.FieldIndexes["title"], TextRun) = 1
  /\ GetDocFrequency(idx.FieldIndexes["body"], TextRun) = 1
  /\ GetDocs(idx.FieldIndexes["body"], TextRun) = (NilRef :> Sqrt(1))

\* the reasons for which Run is to skip a preprocessor of the order: it is
\* external, and externals are disabled or its renderers list is non-empty
\* and lacks the renderer
SkippedExternal(cfg, name, disable, renderer) ==
  /\ ~isBuiltinPreprocessor(name)
  /\ \/ disable
     \/ /\ name \in DOMAIN cfg
        /\ Len(cfg[name].Renderers) > 0
        /\ renderer \notin Range(cfg[name].Renderers)

Fails(outcome, name) == name \in DOMAIN outcome /\ outcome[name] = "fail"

IsPrefix(s, t) == Len(s) <= Len(t) /\ SubSeq(t, 1, Len(s)) = s

\* C30: Run executes the preprocessors strictly in the resolved order and
\* stops at the first failure: when the ordering fails none runs; when a
\* preprocessor fails Run returns an error naming it and none after it runs;
\* an external preprocessor is skipped when externals are disabled or its
\* renderers list is non-empty and lacks the renderer, and the others of the
\* order still run.
C30_RunInOrder ==
  pc = "done" =>
    IF ret.order.err # NilError
    THEN ret.err # NilError /\ ret.executed = <<>>
    ELSE LET cfg == arg.cfg.Preprocessors
             due == SelectSeq(ret.order.result,
                      LAMBDA name : ~SkippedExternal(cfg, name, arg.disableExternals, "html"))
             n == Len(ret.executed)
         IN  /\ IsPrefix(ret.executed, due)
             /\ \A i \in 1..(n - 1) : ~Fails(arg.outcome, ret.executed[i])
             /\ IF ret.err = NilError
                THEN /\ ret.executed = due
                     /\ n > 0 => ~Fails(arg.outcome, ret.executed[n])
                ELSE /\ n > 0
                     /\ Fails(arg.outcome, ret.executed[n])
                     /\ ret.err.nodes = {ret.executed[n]}
                     /\ ret.err.msg # ""
===========================================================================
